---- MODULE Spec2Model ----
(***************************************************************************)
(* Model of the jianpu -> MIDI compiler: token classification (reutils),   *)
(* duration / pitch helpers (utils), the chord resolver (parse_chord),     *)
(* the chord rhythm strategies (chord_patterns) and the single-pass        *)
(* timeline compiler build_midi (main).                                    *)
(*                                                                         *)
(* Representation.                                                         *)
(*   - A token is a sequence of one-character strings, so that the         *)
(*     regular expressions, upper(), lower(), split() are computed         *)
(*     character by character.                                             *)
(*   - A beat count (a Python float) is an integer number of 1/BeatScale   *)
(*     beats.  Every beat value the code can compute from the tables is a  *)
(*     dyadic rational with denominator <= 256, which binary floating      *)
(*     point represents and adds exactly.                                  *)
(*   - A MIDI message is a record [type, note, time]; meta and program     *)
(*     messages carry note = -1.  Channels and velocities are not kept.    *)
(***************************************************************************)
EXTENDS Integers, Sequences, FiniteSets, TLC

VARIABLES
    meta,                   \* parser.meta and the keyword arguments of build_midi
    toks,                   \* parser.tokens
    i,                      \* index of the next token (0-based, as in the code)
    cur_tick,               \* absolute time
    delta_melody,           \* pending delta-time of the melody track
    measure_beats,          \* beats accumulated in the current measure
    current_measure,        \* measure number
    is_recording,           \* inside the from_measure .. to_measure window
    measure_start_tick,     \* tick at which the current measure started
    chord_active,           \* pitches of the sounding chord
    chord_last_tick,        \* absolute tick of the last chord-track event
    current_chord_pattern,  \* active strategy object
    melody,                 \* melody track
    chords,                 \* chord track
    click,                  \* metronome track
    status,                 \* position of the program
    error,                  \* the raised exception: what it reports and the token it names
    call                    \* last direct call of a pure function

vars == <<meta, toks, i, cur_tick, delta_melody, measure_beats, current_measure,
          is_recording, measure_start_tick, chord_active, chord_last_tick,
          current_chord_pattern, melody, chords, click, status, error, call>>

-----------------------------------------------------------------------------
(* Characters and strings                                                  *)

LowerCase == <<"a","b","c","d","e","f","g","h","i","j","k","l","m",
               "n","o","p","q","r","s","t","u","v","w","x","y","z">>
UpperCase == <<"A","B","C","D","E","F","G","H","I","J","K","L","M",
               "N","O","P","Q","R","S","T","U","V","W","X","Y","Z">>
Digits == <<"0","1","2","3","4","5","6","7","8","9">>

Range(f) == { f[k] : k \in DOMAIN f }

IndexIn(c, alphabet) == CHOOSE k \in DOMAIN alphabet : alphabet[k] = c

\* str.upper() / str.lower(), one character
UpperChar(c) == IF c \in Range(LowerCase) THEN UpperCase[IndexIn(c, LowerCase)] ELSE c
LowerChar(c) == IF c \in Range(UpperCase) THEN LowerCase[IndexIn(c, UpperCase)] ELSE c

\* str.upper() / str.lower()
Upper(str) == [k \in DOMAIN str |-> UpperChar(str[k])]
Lower(str) == [k \in DOMAIN str |-> LowerChar(str[k])]

\* int() of one decimal digit
DigitVal(c) == IndexIn(c, Digits) - 1

\* str.strip(): drop leading and trailing blanks
Strip(str) ==
    LET n == Len(str)
        nonBlank == { k \in 1..n : str[k] # " " }
    IN IF nonBlank = {} THEN <<>>
       ELSE SubSeq(str, CHOOSE a \in nonBlank : \A b \in nonBlank : a <= b,
                        CHOOSE a \in nonBlank : \A b \in nonBlank : a >= b)

\* str.count(c)
Count(str, c) == Cardinality({ k \in DOMAIN str : str[k] = c })

\* needle in str
Contains(str, needle) ==
    \E k \in 1..(Len(str) - Len(needle) + 1) :
        SubSeq(str, k, k + Len(needle) - 1) = needle

\* str.startswith(c) for a one-character prefix
StartsWith(str, c) == Len(str) >= 1 /\ str[1] = c

\* end of the maximal run of characters of S that starts at position p
RunEnd(str, p, S) ==
    CHOOSE q \in p..(Len(str) + 1) :
        /\ \A k \in p..(q - 1) : str[k] \in S
        /\ (q = Len(str) + 1 \/ str[q] \notin S)

-----------------------------------------------------------------------------
(* constants.py (not among the sources; values taken from the             *)
(* specification: 480 ticks per quarter beat, the duration table, the      *)
(* major scale, middle C = 60 and A = 57 from the Am = [45,48,52] example) *)

TICKS_PER_BEAT == 480

\* number of model units in one quarter beat
BeatScale == 16 * 16

DUR2BEAT ==
    [c \in {"w","h","q","e","s","t"} |->
        CASE c = "w" -> 4 * BeatScale
          [] c = "h" -> 2 * BeatScale
          [] c = "q" -> BeatScale
          [] c = "e" -> BeatScale \div 2
          [] c = "s" -> BeatScale \div 4
          [] c = "t" -> BeatScale \div 8]

MAJOR_INTERVALS == <<0, 2, 4, 5, 7, 9, 11>>

NOTE2MIDI_items ==
    { << <<"C">>, 60 >>, << <<"C","#">>, 61 >>, << <<"D","b">>, 61 >>,
      << <<"D">>, 62 >>, << <<"D","#">>, 63 >>, << <<"E","b">>, 63 >>,
      << <<"E">>, 64 >>, << <<"F">>, 65 >>, << <<"F","#">>, 66 >>,
      << <<"G","b">>, 66 >>, << <<"G">>, 55 >>, << <<"G","#">>, 56 >>,
      << <<"A","b">>, 56 >>, << <<"A">>, 57 >>, << <<"A","#">>, 58 >>,
      << <<"B","b">>, 58 >>, << <<"B">>, 59 >> }

NOTE2MIDI ==
    [name \in { it[1] : it \in NOTE2MIDI_items } |->
        (CHOOSE it \in NOTE2MIDI_items : it[1] = name)[2]]

-----------------------------------------------------------------------------
(* reutils.py                                                              *)

NoMatch == [ok |-> FALSE]

DurLetters == {"w","h","q","e","s","t"}

\* (?P<dur>[whqest]|/\d+)? starting at position p: position after the group
DurEnd(tok, p) ==
    IF p <= Len(tok) /\ tok[p] \in DurLetters THEN p + 1
    ELSE IF p + 1 <= Len(tok) /\ tok[p] = "/" /\ tok[p + 1] \in Range(Digits)
         THEN RunEnd(tok, p + 1, Range(Digits))
         ELSE p

\* _NOTE_RE.match(tok)
NOTE_RE(tok) ==
    IF Len(tok) = 0 \/ tok[1] \notin {"1","2","3","4","5","6","7"} THEN NoMatch
    ELSE LET n      == Len(tok)
             hasAcc == 2 <= n /\ tok[2] \in {"#","b"}
             pOct   == IF hasAcc THEN 3 ELSE 2
             pDur   == RunEnd(tok, pOct, {"'", ","})
             pDots  == DurEnd(tok, pDur)
             pTie   == RunEnd(tok, pDots, {"."})
             hasTie == pTie <= n /\ tok[pTie] = "^"
             pEnd   == IF hasTie THEN pTie + 1 ELSE pTie
         IN IF pEnd # n + 1 THEN NoMatch
            ELSE [ok   |-> TRUE,
                  deg  |-> tok[1],
                  acc  |-> IF hasAcc THEN <<tok[2]>> ELSE <<>>,
                  oct  |-> SubSeq(tok, pOct, pDur - 1),
                  dur  |-> SubSeq(tok, pDur, pDots - 1),
                  dots |-> SubSeq(tok, pDots, pTie - 1),
                  tie  |-> IF hasTie THEN <<"^">> ELSE <<>>]

\* _REST_RE.match(tok)
REST_RE(tok) ==
    IF Len(tok) = 0 \/ tok[1] \notin {"R","0"} THEN NoMatch
    ELSE LET n     == Len(tok)
             pDots == DurEnd(tok, 2)
             pEnd  == RunEnd(tok, pDots, {"."})
         IN IF pEnd # n + 1 THEN NoMatch
            ELSE [ok   |-> TRUE,
                  r    |-> tok[1],
                  dur  |-> SubSeq(tok, 2, pDots - 1),
                  dots |-> SubSeq(tok, pDots, pEnd - 1)]

\* _CHORD_RE.match(tok): ^[A-Ga-g][#b]?[^/]*$|^O$
CHORD_RE(tok) ==
    \/ /\ Len(tok) >= 1
       /\ tok[1] \in {"A","B","C","D","E","F","G","a","b","c","d","e","f","g"}
       /\ \A k \in 2..Len(tok) : tok[k] # "/"
    \/ tok = <<"O">>

-----------------------------------------------------------------------------
(* utils.py                                                                *)

\* float(dur) of a dur that starts with "/" raises ValueError
beats_raises(dur) == dur # <<>> /\ dur[1] = "/"

\* _beats(dur, dots, unit) when it returns
_beats(dur, dots, unit) ==
    LET b == IF dur = <<>> THEN unit ELSE (DUR2BEAT[dur[1]] * unit) \div BeatScale
    IN IF dots = <<>> THEN b
       ELSE IF dots = <<".">> THEN (b * 3) \div 2
       ELSE (b * 7) \div 4

\* _norm_key(name): [err, val]
_norm_key(name) ==
    LET nm == Strip(name)
    IN IF Len(nm) = 1 THEN [err |-> FALSE, val |-> Upper(nm)]
       ELSE IF Len(nm) = 2 /\ nm[2] \in {"#","b"}
            THEN [err |-> FALSE, val |-> <<UpperChar(nm[1]), nm[2]>>]
            ELSE [err |-> TRUE, val |-> <<>>]

\* _degree2midi(deg, acc, oct_shift, key_root)
_degree2midi(deg, acc, oct_shift, key_root) ==
    NOTE2MIDI[key_root]
        + MAJOR_INTERVALS[deg]
        + (IF acc = <<"#">> THEN 1 ELSE IF acc = <<"b">> THEN -1 ELSE 0)
        + 12 * oct_shift

\* int(beats * TICKS_PER_BEAT) for a non-negative beat count
Ticks(b) == (b * TICKS_PER_BEAT) \div BeatScale

-----------------------------------------------------------------------------
(* parse_chord.py                                                          *)

\* variant: the default is the minor triad
DefaultIntervalsMinor == <<0, 3, 7>>

\* "intervals = (0, 4, 7)": the default, kept when no quality matches
DefaultIntervals == <<0, 4, 7>>

\* the quality table of _parse_chord: the interval set chosen for qual
Intervals(qual) ==
    IF qual = <<"m">> THEN <<0, 3, 7>>
    ELSE IF qual \in { <<"a","u","g">>, <<"+">> } THEN <<0, 4, 8>>
    ELSE IF qual \in { <<"d","i","m">>, <<"o">>, <<"°">> } THEN <<0, 3, 6>>
    ELSE IF qual = <<"s","u","s","4">> THEN <<0, 5, 7>>
    ELSE IF qual = <<"s","u","s","2">> THEN <<0, 2, 7>>
    ELSE IF qual = <<"7">> THEN <<0, 4, 7, 10>>
    ELSE IF qual \in { <<"m","7">>, <<"m","i","n","7">> } THEN <<0, 3, 7, 10>>
    ELSE IF qual \in { <<"m","a","j","7">>, <<"M","7">> } THEN <<0, 4, 7, 11>>
    ELSE IF qual \in { <<"m","7","b","5">>, <<"ø">> } THEN <<0, 3, 6, 10>>
    ELSE IF qual \in { <<"d","i","m","7">>, <<"o","7">>, <<"°","7">> } THEN <<0, 3, 6, 9>>
    ELSE IF qual = <<"6">> THEN <<0, 4, 7, 9>>
    ELSE IF qual = <<"m","6">> THEN <<0, 3, 7, 9>>
    ELSE IF qual \in { <<"9">>, <<"7","(","9",")">> } THEN <<0, 4, 7, 10, 14>>
    ELSE DefaultIntervals

\* qual = sym[idx:].lower()
Qual(sym, idx) == Lower(SubSeq(sym, idx + 1, Len(sym)))

\* variant: no symbol stands for "no chord"
NoChordNever(sym) == FALSE

\* "if sym.upper() == 'O'"
NoChord(sym) == Upper(sym) = <<"O">>

\* _parse_chord(sym): [err, notes], err in {"", "ValueError", "IndexError"}
_parse_chord(sym0) ==
    IF NoChord(sym0) THEN [err |-> "", notes |-> <<>>]
    ELSE LET sym == Strip(sym0)
         IN IF Len(sym) = 0 THEN [err |-> "IndexError", notes |-> <<>>]
            ELSE LET hasAcc == Len(sym) > 1 /\ sym[2] \in {"#","b"}
                     root   == IF hasAcc THEN <<UpperChar(sym[1]), sym[2]>>
                                         ELSE <<UpperChar(sym[1])>>
                     idx    == IF hasAcc THEN 2 ELSE 1
                     qual   == Qual(sym, idx)
                 IN IF root \notin DOMAIN NOTE2MIDI
                    THEN [err |-> "ValueError", notes |-> <<>>]
                    ELSE LET root_pitch == NOTE2MIDI[root] - 12
                             intervals  == Intervals(qual)
                         IN [err   |-> "",
                             notes |-> [k \in DOMAIN intervals |->
                                            root_pitch + intervals[k]]]

\* Chord.__getitem__(item): wraps with octave transposition
ChordItem(notes, item) ==
    notes[(item % Len(notes)) + 1] + 12 * (item \div Len(notes))

-----------------------------------------------------------------------------
(* Sequences of numbers and of messages                                    *)

Max(a, b) == IF a >= b THEN a ELSE b
Min(a, b) == IF a <= b THEN a ELSE b

RECURSIVE SumSeq(_)
SumSeq(s) == IF s = <<>> THEN 0 ELSE s[1] + SumSeq(Tail(s))

RECURSIVE Flatten(_)
Flatten(ss) == IF ss = <<>> THEN <<>> ELSE ss[1] \o Flatten(Tail(ss))

RECURSIVE Insert(_, _)
Insert(x, s) ==
    IF s = <<>> THEN <<x>>
    ELSE IF x < s[1] THEN <<x>> \o s
    ELSE <<s[1]>> \o Insert(x, Tail(s))

\* sorted(notes): ascending, stable
RECURSIVE Sorted(_)
Sorted(s) ==
    IF s = <<>> THEN <<>>
    ELSE Insert(s[Len(s)], Sorted(SubSeq(s, 1, Len(s) - 1)))

Reversed(s) == [k \in DOMAIN s |-> s[Len(s) + 1 - k]]

\* seq * times
RECURSIVE Repeat(_, _)
Repeat(s, times) == IF times <= 0 THEN <<>> ELSE s \o Repeat(s, times - 1)

\* seq[:m]
Prefix(s, m) == SubSeq(s, 1, Min(Len(s), Max(m, 0)))

\* mido.Message / mido.MetaMessage
Msg(type, note, time) == [type |-> type, note |-> note, time |-> time]
NoteOn(note, time) == Msg("note_on", note, time)
NoteOff(note, time) == Msg("note_off", note, time)

-----------------------------------------------------------------------------
(* chord_patterns.py                                                       *)
(* Every generate_events is modelled by the pair [events, ret]: the        *)
(* messages appended to the track and the returned tick.                   *)

\* BlockChordPattern.generate_events
BlockEvents(chord_notes, start_tick, duration_ticks0, last_tick) ==
    IF Len(chord_notes) = 0 THEN [events |-> <<>>, ret |-> last_tick]
    ELSE LET dt == Max(0, start_tick - last_tick)
             duration_ticks == Max(1, duration_ticks0)
         IN [events |->
                [k \in DOMAIN chord_notes |->
                    NoteOn(chord_notes[k], IF k = 1 THEN dt ELSE 0)]
                \o
                [k \in DOMAIN chord_notes |->
                    NoteOff(chord_notes[k], IF k = 1 THEN duration_ticks ELSE 0)],
             ret |-> start_tick + duration_ticks]

\* ArpeggioChordPattern.generate_events
ArpeggioEvents(chord_notes, start_tick, duration_ticks0, last_tick) ==
    IF Len(chord_notes) = 0 THEN [events |-> <<>>, ret |-> last_tick]
    ELSE LET dt == Max(0, start_tick - last_tick)
             duration_ticks == Max(1, duration_ticks0)
             note_count == Len(chord_notes)
             single_note_duration == duration_ticks \div note_count
         IN [events |->
                Flatten([k \in DOMAIN chord_notes |->
                    << NoteOn(chord_notes[k], IF k = 1 THEN dt ELSE 0),
                       NoteOff(chord_notes[k], single_note_duration) >>]),
             ret |-> start_tick + note_count * single_note_duration]

\* GuitarStrumsPattern: int(self.strum_duration * TICKS_PER_BEAT), strum_duration = 0.05
GuitarStrumTicks == (5 * TICKS_PER_BEAT) \div 100

\* GuitarStrumsPattern.generate_events
GuitarEvents(chord_notes, start_tick, duration_ticks0, last_tick) ==
    IF Len(chord_notes) = 0 THEN [events |-> <<>>, ret |-> last_tick]
    ELSE LET dt == Max(0, start_tick - last_tick)
             duration_ticks == Max(1, duration_ticks0)
             sorted_notes == Sorted(chord_notes)
             note_count == Len(sorted_notes)
             strum_ticks == GuitarStrumTicks
             total_strum_ticks == IF note_count > 1 THEN strum_ticks * (note_count - 1) ELSE 0
             note_duration == Max(1, duration_ticks - total_strum_ticks)
         IN [events |->
                [k \in DOMAIN sorted_notes |->
                    NoteOn(sorted_notes[k], IF k = 1 THEN dt ELSE strum_ticks)]
                \o
                [k \in DOMAIN sorted_notes |->
                    NoteOff(sorted_notes[k], IF k = 1 THEN note_duration ELSE 0)],
             ret |-> start_tick + duration_ticks]

\* RhythmicArpeggioPattern.generate_events: the index pattern (0-based indices)
RhythmicPatternIdx(note_count, num, den) ==
    LET raw ==
          IF note_count = 3 THEN
              IF num = 4 /\ den = 4 THEN <<0, 1, 2, 1, 2, 1, 2, 3>>
              ELSE IF num = 3 /\ den = 4 THEN <<0, 1, 2, 0, 1, 2>>
              ELSE IF num = 6 /\ den = 8 THEN <<0, 2, 1, 0, 2, 1>>
              ELSE IF num = 2 /\ den = 4 THEN <<0, 1, 0, 2>>
              ELSE Repeat(<<0, 1, 2>>, (num * 2) \div 3)
          ELSE IF note_count = 4 THEN
              IF num = 4 /\ den = 4 THEN <<0, 1, 2, 3, 0, 1, 2, 3>>
              ELSE IF num = 3 /\ den = 4 THEN <<0, 1, 2, 0, 3, 2>>
              ELSE IF num = 6 /\ den = 8 THEN <<0, 3, 1, 0, 2, 3>>
              ELSE IF num = 2 /\ den = 4 THEN <<0, 3, 1, 2>>
              ELSE Repeat(<<0, 1, 2, 3>>, num \div 2)
          ELSE Prefix(Repeat([k \in 1..note_count |-> k - 1],
                             (num * 2) \div Max(1, note_count)),
                      num * 2)
    IN IF raw = <<>> THEN <<0>> ELSE raw

\* RhythmicArpeggioPattern.generate_events
RhythmicEvents(time_signature, chord_notes, start_tick, duration_ticks0, last_tick) ==
    IF Len(chord_notes) = 0 THEN [events |-> <<>>, ret |-> last_tick]
    ELSE LET dt == Max(0, start_tick - last_tick)
             duration_ticks == Max(1, duration_ticks0)
             pattern_idx == RhythmicPatternIdx(Len(chord_notes),
                                               time_signature[1], time_signature[2])
             total_notes == Len(pattern_idx)
             pattern_unit_ticks == duration_ticks \div total_notes
             remaining_ticks ==
                 Max(1, duration_ticks - (total_notes - 1) * pattern_unit_ticks)
             off_time(k) == IF k = total_notes THEN remaining_ticks
                            ELSE pattern_unit_ticks
         IN [events |->
                Flatten([k \in DOMAIN pattern_idx |->
                    << NoteOn(ChordItem(chord_notes, pattern_idx[k]),
                              IF k = 1 THEN dt ELSE 0),
                       NoteOff(ChordItem(chord_notes, pattern_idx[k]), off_time(k)) >>]),
             ret |-> start_tick
                       + SumSeq([k \in DOMAIN pattern_idx |-> off_time(k)])]

\* AdvancedGuitarPattern.RHYTHM_PATTERNS[key][style]: strokes <<direction, type>>
\* (the velocity adjustment of a stroke is not kept)
RHYTHM_PATTERNS(key, style) ==
    CASE key = "4_4" /\ style = "basic" ->
        << <<"d","f">>, <<"u","f">>, <<"d","f">>, <<"u","f">>, <<"d","f">>, <<"u","f">>, <<"d","f">>, <<"u","f">> >>
    [] key = "4_4" /\ style = "folk" ->
        << <<"d","f">>, <<"u","h">>, <<"d","f">>, <<"u","f">>, <<"d","f">>, <<"u","h">>, <<"d","f">>, <<"u","f">> >>
    [] key = "4_4" /\ style = "rock" ->
        << <<"d","f">>, <<"u","h">>, <<"d","f">>, <<"d","b">>, <<"u","f">>, <<"d","f">>, <<"m","f">>, <<"u","h">> >>
    [] key = "4_4" /\ style = "ballad" ->
        << <<"d","f">>, <<"-","f">>, <<"u","h">>, <<"-","f">>, <<"d","b">>, <<"-","f">>, <<"u","h">>, <<"-","f">> >>
    [] key = "4_4" /\ style = "country" ->
        << <<"d","b">>, <<"u","h">>, <<"d","f">>, <<"u","f">>, <<"d","b">>, <<"u","h">>, <<"d","f">>, <<"u","f">> >>
    [] key = "3_4" /\ style = "basic" ->
        << <<"d","f">>, <<"u","f">>, <<"u","h">>, <<"d","f">>, <<"u","f">>, <<"u","h">> >>
    [] key = "3_4" /\ style = "waltz" ->
        << <<"d","f">>, <<"u","h">>, <<"u","h">>, <<"d","f">>, <<"u","h">>, <<"u","h">> >>
    [] key = "3_4" /\ style = "folk" ->
        << <<"d","f">>, <<"u","h">>, <<"d","b">>, <<"d","f">>, <<"u","h">>, <<"d","b">> >>
    [] key = "6_8" /\ style = "basic" ->
        << <<"d","f">>, <<"u","h">>, <<"d","b">>, <<"u","f">>, <<"d","h">>, <<"u","f">> >>
    [] key = "6_8" /\ style = "folk" ->
        << <<"d","f">>, <<"u","h">>, <<"u","h">>, <<"d","b">>, <<"u","h">>, <<"u","h">> >>
    [] key = "6_8" /\ style = "irish" ->
        << <<"d","f">>, <<"u","h">>, <<"d","b">>, <<"u","f">>, <<"d","h">>, <<"u","f">> >>
    [] key = "2_4" /\ style = "basic" ->
        << <<"d","f">>, <<"u","f">>, <<"d","f">>, <<"u","f">> >>
    [] key = "2_4" /\ style = "march" ->
        << <<"d","f">>, <<"u","h">>, <<"d","b">>, <<"u","h">> >>

RHYTHM_STYLES(key) ==
    CASE key = "4_4" -> {"basic", "folk", "rock", "ballad", "country"}
      [] key = "3_4" -> {"basic", "waltz", "folk"}
      [] key = "6_8" -> {"basic", "folk", "irish"}
      [] key = "2_4" -> {"basic", "march"}
      [] OTHER -> {}

\* f'{num}_{den}' for the keys of RHYTHM_PATTERNS; any other signature is "other"
TimeSigKey(num, den) ==
    IF num = 4 /\ den = 4 THEN "4_4"
    ELSE IF num = 3 /\ den = 4 THEN "3_4"
    ELSE IF num = 6 /\ den = 8 THEN "6_8"
    ELSE IF num = 2 /\ den = 4 THEN "2_4"
    ELSE "other"

\* AdvancedGuitarPattern.__init__: self.pattern
AdvancedGuitarInit(time_signature, rhythm_style) ==
    LET num == time_signature[1]
        den == time_signature[2]
        time_sig_key == TimeSigKey(num, den)
    IN IF time_sig_key # "other"
       THEN IF rhythm_style \in RHYTHM_STYLES(time_sig_key)
            THEN RHYTHM_PATTERNS(time_sig_key, rhythm_style)
            ELSE RHYTHM_PATTERNS(time_sig_key, "basic")
       ELSE LET base == RHYTHM_PATTERNS("4_4", "basic")
                pattern_len == Len(base)
                target_len == num * 2
            IN IF pattern_len > target_len THEN Prefix(base, target_len)
               ELSE IF pattern_len < target_len
                    THEN LET repeats == (target_len \div pattern_len)
                                 + (IF target_len % pattern_len > 0 THEN 1 ELSE 0)
                         IN Prefix(Repeat(base, repeats), target_len)
                    ELSE base

\* _get_bass_notes / _get_high_notes / identity, applied to the sorted chord
NotesToPlay(strum_type, sorted_notes) ==
    LET n == Len(sorted_notes)
    IN IF strum_type = "b" THEN SubSeq(sorted_notes, 1, Min(2, n))
       ELSE IF strum_type = "h" THEN SubSeq(sorted_notes, n - Min(3, n) + 1, n)
       ELSE IF strum_type = "r" THEN <<sorted_notes[1]>>
       ELSE IF strum_type = "c" THEN SubSeq(sorted_notes, 2, n)
       ELSE sorted_notes

\* min(int(self.strum_duration * TICKS_PER_BEAT), TICKS_PER_BEAT // 16), strum_duration = 0.03
AdvStrumTime == Min((3 * TICKS_PER_BEAT) \div 100, TICKS_PER_BEAT \div 16)

\* one rhythm unit of AdvancedGuitarPattern.generate_events: [events, used]
AdvUnit(stroke, chord_notes, dt_head, this_unit_ticks) ==
    LET direction == stroke[1]
        strum_type == stroke[2]
        selected == NotesToPlay(strum_type, Sorted(chord_notes))
        notes_to_play == IF direction = "u" THEN Reversed(selected) ELSE selected
        is_muted == direction = "m"
        strum_time == AdvStrumTime
        on_time(k) == IF k = 1 THEN dt_head ELSE strum_time
        onsets_used == SumSeq([k \in DOMAIN notes_to_play |-> on_time(k)])
        sustain == IF is_muted THEN TICKS_PER_BEAT \div 16
                   ELSE Max(0, this_unit_ticks - onsets_used)
    IN [events |->
            [k \in DOMAIN notes_to_play |-> NoteOn(notes_to_play[k], on_time(k))]
            \o
            [k \in DOMAIN notes_to_play |->
                NoteOff(notes_to_play[k], IF k = 1 THEN sustain ELSE 0)],
        used |-> onsets_used + sustain]

\* AdvancedGuitarPattern.generate_events
AdvancedGuitarEvents(pattern, chord_notes, start_tick, duration_ticks0, last_tick) ==
    IF Len(chord_notes) = 0 THEN [events |-> <<>>, ret |-> last_tick]
    ELSE LET dt_to_first == Max(0, start_tick - last_tick)
             duration_ticks == Max(1, duration_ticks0)
             pattern_len == Max(1, Len(pattern))
             unit_ticks == duration_ticks \div pattern_len
             last_unit_ticks == duration_ticks - unit_ticks * (pattern_len - 1)
             unit(k) == AdvUnit(pattern[k], chord_notes,
                                IF k = 1 THEN dt_to_first ELSE 0,
                                IF k = pattern_len THEN last_unit_ticks ELSE unit_ticks)
         IN [events |-> Flatten([k \in DOMAIN pattern |-> unit(k).events]),
             ret |-> last_tick + SumSeq([k \in DOMAIN pattern |-> unit(k).used])]

\* a strategy object
Pattern(kind, time_signature, pattern) ==
    [kind |-> kind, time_signature |-> time_signature, pattern |-> pattern]

\* the names get_chord_pattern knows
PatternNames ==
    { <<"b","l","o","c","k">>, <<"a","r","p","e","g","g","i","o">>,
      <<"g","u","i","t","a","r">>, <<"r","h","y","t","h","m","i","c">>,
      <<"a","d","v","_","g","u","i","t","a","r">>,
      <<"f","o","l","k","_","g","u","i","t","a","r">>,
      <<"r","o","c","k","_","g","u","i","t","a","r">>,
      <<"b","a","l","l","a","d","_","g","u","i","t","a","r">>,
      <<"c","o","u","n","t","r","y","_","g","u","i","t","a","r">>,
      <<"w","a","l","t","z","_","g","u","i","t","a","r">> }

\* get_chord_pattern(pattern_name, time_signature)
get_chord_pattern(pattern_name, time_signature) ==
    LET name == Lower(pattern_name)
        adv(ts, style) == Pattern("adv_guitar", ts, AdvancedGuitarInit(ts, style))
    IN IF name = <<"b","l","o","c","k">> THEN Pattern("block", <<4, 4>>, <<>>)
       ELSE IF name = <<"a","r","p","e","g","g","i","o">>
            THEN Pattern("arpeggio", <<4, 4>>, <<>>)
       ELSE IF name = <<"g","u","i","t","a","r">> THEN Pattern("guitar", <<4, 4>>, <<>>)
       ELSE IF name = <<"r","h","y","t","h","m","i","c">>
            THEN Pattern("rhythmic", time_signature, <<>>)
       ELSE IF name = <<"a","d","v","_","g","u","i","t","a","r">>
            THEN adv(time_signature, "basic")
       ELSE IF name = <<"f","o","l","k","_","g","u","i","t","a","r">>
            THEN adv(time_signature, "folk")
       ELSE IF name = <<"r","o","c","k","_","g","u","i","t","a","r">>
            THEN adv(time_signature, "rock")
       ELSE IF name = <<"b","a","l","l","a","d","_","g","u","i","t","a","r">>
            THEN adv(time_signature, "ballad")
       ELSE IF name = <<"c","o","u","n","t","r","y","_","g","u","i","t","a","r">>
            THEN adv(time_signature, "country")
       ELSE IF name = <<"w","a","l","t","z","_","g","u","i","t","a","r">>
            THEN adv(<<3, 4>>, "waltz")
       ELSE Pattern("block", <<4, 4>>, <<>>)

\* <strategy>.generate_events(chord_notes, start_tick, duration_ticks, track, last_tick)
generate_events(pat, chord_notes, start_tick, duration_ticks, last_tick) ==
    CASE pat.kind = "block" ->
            BlockEvents(chord_notes, start_tick, duration_ticks, last_tick)
      [] pat.kind = "arpeggio" ->
            ArpeggioEvents(chord_notes, start_tick, duration_ticks, last_tick)
      [] pat.kind = "guitar" ->
            GuitarEvents(chord_notes, start_tick, duration_ticks, last_tick)
      [] pat.kind = "rhythmic" ->
            RhythmicEvents(pat.time_signature, chord_notes, start_tick,
                           duration_ticks, last_tick)
      [] pat.kind = "adv_guitar" ->
            AdvancedGuitarEvents(pat.pattern, chord_notes, start_tick,
                                 duration_ticks, last_tick)

-----------------------------------------------------------------------------
(* main.py: build_midi, values fixed before the loop                       *)

None == -1

\* a & b for naturals
RECURSIVE BitAnd(_, _)
BitAnd(a, b) ==
    IF a = 0 \/ b = 0 THEN 0
    ELSE (a % 2) * (b % 2) + 2 * BitAnd(a \div 2, b \div 2)

\* ts_den & (ts_den - 1) is non-zero (0 & -1 = 0)
DenNotPowerOfTwo(ts_den) == ts_den # 0 /\ BitAnd(ts_den, ts_den - 1) # 0

\* unit = DUR2BEAT.get(parser.meta.get('UNIT', 'q').lower(), 1)
UnitOf(m) ==
    LET u == Lower(m.UNIT)
    IN IF Len(u) = 1 /\ u[1] \in DOMAIN DUR2BEAT THEN DUR2BEAT[u[1]] ELSE BeatScale

unit == UnitOf(meta)
key_root == _norm_key(meta.KEY).val
ts_num == meta.TIME[1]
ts_den == meta.TIME[2]

\* beats_per_measure = ts_num * 4 / ts_den
beats_per_measure == (ts_num * 4 * BeatScale) \div ts_den

\* measure_total_ticks = beats_per_measure * TICKS_PER_BEAT
measure_total_ticks == Ticks(beats_per_measure)

n == Len(toks)

\* toks[k] with the 0-based index of the code
Tok(k) == toks[k + 1]

MeasureLines == { <<"|">>, <<"|","|">> }

\* _CHORD_RE.match(tok) and not _NOTE_RE.match(tok)
IsChordTok(tok) == CHORD_RE(tok) /\ ~NOTE_RE(tok).ok

\* left < -1e-6 and left > 1e-6 for a beat difference in model units: for an
\* integer left, left * EpsDen < -BeatScale iff left < -(BeatScale \div EpsDen)
\* and left * EpsDen > BeatScale iff left > BeatScale \div EpsDen (floor division)
EpsDen == 1000000
\* variant: the sign of epsilon is lost
LeftUnderPositiveEps(left) == left < -((-BeatScale) \div EpsDen)
LeftUnder(left) == left < -(BeatScale \div EpsDen)
\* variant: no leftover is ever seen
LeftOverNever(left) == FALSE
LeftOver(left) == left > BeatScale \div EpsDen

\* an exception: its class is the status, this is what it reports
Err(what, tok) == [what |-> what, tok |-> tok]
NoError == Err("", <<>>)

-----------------------------------------------------------------------------
(* main.py: tie merging of the main pass (lines 303-316)                   *)

\* variant: the tie stays open whatever the absorbed note carries
NextTieAlways(nxt) == TRUE

\* variant: the tie closes whatever the absorbed note carries
NextTieNever(nxt) == FALSE

\* "tie = bool(nxt.group('tie'))"
NextTie(nxt) == nxt.tie # <<>>

NotePitch(m) ==
    _degree2midi(DigitVal(m.deg), m.acc,
                 Count(m.oct, "'") - Count(m.oct, ","), key_root)

\* the while loop: [j, beats, err] when it leaves the loop or raises
RECURSIVE TieMerge(_, _, _, _)
TieMerge(j, beats, tie, pitch) ==
    IF ~(tie /\ j + 1 < n) THEN [j |-> j, beats |-> beats, err |-> FALSE]
    ELSE LET nxt == NOTE_RE(Tok(j + 1))
         IN IF ~nxt.ok THEN [j |-> j, beats |-> beats, err |-> FALSE]
            ELSE IF NotePitch(nxt) # pitch THEN [j |-> j, beats |-> beats, err |-> FALSE]
            ELSE IF beats_raises(nxt.dur) THEN [j |-> j, beats |-> beats, err |-> TRUE]
            ELSE TieMerge(j + 1, beats + _beats(nxt.dur, nxt.dots, unit),
                          NextTie(nxt), pitch)

-----------------------------------------------------------------------------
(* main.py: the span of a chord symbol (lines 186-245)                     *)

\* first j > i0 whose token is a chord symbol (directives skipped), or n
NextChord(i0) ==
    LET cand == { j \in (i0 + 1)..(n - 1) :
                    ~StartsWith(Tok(j), "#") /\ IsChordTok(Tok(j)) }
    IN IF cand = {} THEN n ELSE CHOOSE j \in cand : \A j2 \in cand : j <= j2

\* tie merging of the forward scan: [l, beats, err]
RECURSIVE ScanTie(_, _, _, _)
ScanTie(l, j, beats_k, tie_k) ==
    IF ~(tie_k /\ l + 1 < j) THEN [l |-> l, beats |-> beats_k, err |-> FALSE]
    ELSE LET nxt_k == NOTE_RE(Tok(l + 1))
         IN IF ~nxt_k.ok THEN [l |-> l, beats |-> beats_k, err |-> FALSE]
            ELSE IF beats_raises(nxt_k.dur) THEN [l |-> l, beats |-> beats_k, err |-> TRUE]
            ELSE ScanTie(l + 1, j, beats_k + _beats(nxt_k.dur, nxt_k.dots, unit),
                         nxt_k.tie # <<>>)

\* the loop "while k < j": [err, tick]
RECURSIVE Scan(_, _, _)
Scan(k, j, temp_tick) ==
    IF k >= j THEN [err |-> FALSE, tick |-> temp_tick]
    ELSE LET tok_k == Tok(k)
             m_rest_k == REST_RE(tok_k)
             m_k == NOTE_RE(tok_k)
         IN IF StartsWith(tok_k, "#") \/ tok_k \in MeasureLines
            THEN Scan(k + 1, j, temp_tick)
            ELSE IF m_rest_k.ok
            THEN IF beats_raises(m_rest_k.dur) THEN [err |-> TRUE, tick |-> temp_tick]
                 ELSE Scan(k + 1, j,
                           temp_tick + Ticks(_beats(m_rest_k.dur, m_rest_k.dots, unit)))
            ELSE IF m_k.ok
            THEN IF beats_raises(m_k.dur) THEN [err |-> TRUE, tick |-> temp_tick]
                 ELSE LET t == ScanTie(k, j, _beats(m_k.dur, m_k.dots, unit),
                                       m_k.tie # <<>>)
                      IN IF t.err THEN [err |-> TRUE, tick |-> temp_tick]
                         ELSE Scan(t.l + 1, j, temp_tick + Ticks(t.beats))
            ELSE Scan(k + 1, j, temp_tick)

\* chord_duration_ticks for the chord symbol at index i0: [err, found, ticks]
ChordSpan(i0, tick0) ==
    LET j == NextChord(i0)
        found_next_chord == j < n
    IN IF found_next_chord
       THEN LET sc == Scan(i0 + 1, j, tick0)
            IN [err |-> sc.err, found |-> TRUE, ticks |-> Max(1, sc.tick - tick0)]
       ELSE [err |-> FALSE, found |-> FALSE,
             ticks |-> Max(1, Ticks(beats_per_measure))]

\* "关掉旧和弦": the note_off messages that close the sounding chord
CloseChord(active, tick, last) ==
    [k \in DOMAIN active |->
        NoteOff(active[k], IF k = 1 THEN Max(0, tick - last) ELSE 0)]

\* from_tick and to_tick (lines 251-270), as fractions <<numerator, denominator>>
FromTick(found, chord_start_tick) ==
    IF found /\ chord_start_tick >= measure_start_tick
    THEN IF chord_start_tick - measure_start_tick >= measure_total_ticks
         THEN <<1, 1>>
         ELSE <<chord_start_tick - measure_start_tick, measure_total_ticks>>
    ELSE <<0, 1>>

ToTick(found, chord_start_tick, chord_duration_ticks) ==
    LET next_chord_tick == chord_start_tick + chord_duration_ticks
    IN IF found /\ next_chord_tick < measure_start_tick + measure_total_ticks
       THEN LET next_offset == next_chord_tick - measure_start_tick
            IN IF next_offset >= measure_total_ticks THEN <<1, 1>>
               ELSE <<next_offset, measure_total_ticks>>
       ELSE <<1, 1>>

\* number of parameters of generate_events after self
GenerateEventsParams == 5

\* the arguments of the call at lines 277-285
GenerateEventsArgs(new_chord_notes, chord_start_tick, span, last_tick) ==
    << new_chord_notes,
       chord_start_tick,
       measure_total_ticks,
       "chords",
       last_tick,
       FromTick(span.found, chord_start_tick),
       ToTick(span.found, chord_start_tick, span.ticks) >>

\* 'CHORD_PATTERN'
CHORD_PATTERN_KEY == <<"C","H","O","R","D","_","P","A","T","T","E","R","N">>

\* tok[1:].split('=', 1): the part after the first '=', or no second part
HasEquals(tok) == \E k \in 2..Len(tok) : tok[k] = "="
AfterEquals(tok) ==
    LET p == CHOOSE k \in 2..Len(tok) :
                 tok[k] = "=" /\ \A k2 \in 2..(k - 1) : tok[k2] # "="
    IN SubSeq(tok, p + 1, Len(tok))

\* the metronome track (lines 350-365)
ClickMsg(type, velocity, time) ==
    [type |-> type, note |-> "METRO_NOTE", velocity |-> velocity, time |-> time]

beat_ticks == (TICKS_PER_BEAT * 4) \div ts_den
\* variant: the click lasts a quarter of the beat
click_lenQuarter == beat_ticks \div 4
click_len == beat_ticks \div 5

RECURSIVE Clicks(_, _, _)
Clicks(t, beat_idx, final_tick) ==
    IF ~(t < final_tick) THEN <<>>
    ELSE << ClickMsg("note_on",
                     IF beat_idx % ts_num = 0 THEN meta.metro_vel[1] ELSE meta.metro_vel[2],
                     IF t = 0 THEN 0 ELSE beat_ticks - click_len),
            ClickMsg("note_off", 0, click_len) >>
         \o Clicks(t + beat_ticks, beat_idx + 1, final_tick)

EndOfTrack == Msg("end_of_track", -1, 0)

-----------------------------------------------------------------------------
(* main.py: build_midi as a state machine                                  *)
(* status: "start" before the call, "run" in the while loop, "done" after  *)
(* mid.save, or the class of the exception that left build_midi.           *)

Raise(cls, what, tok) == status' = cls /\ error' = Err(what, tok)

\* variant: the release is written for pitch 0
NoteMessagesWrongRelease(pitch, delta, ticks) ==
    << NoteOn(pitch, delta), NoteOff(0, ticks) >>

\* the two melody messages of a note (lines 319-320)
NoteMessages(pitch, delta, ticks) == << NoteOn(pitch, delta), NoteOff(pitch, ticks) >>

\* variant: the message does not carry the token
ParseErrorNoToken(tok) == Err("unparseable", <<>>)

\* raise ValueError(f'无法解析标记: {tok}')
ParseError(tok) == Err("unparseable", tok)

\* lines 72-120
Setup ==
    /\ status = "start"
    /\ LET k == _norm_key(meta.KEY)
       IN IF k.err \/ k.val \notin DOMAIN NOTE2MIDI
          THEN /\ Raise("ValueError", "key", meta.KEY)
               /\ UNCHANGED <<current_chord_pattern, melody, chords, is_recording>>
          ELSE IF DenNotPowerOfTwo(ts_den)
          THEN /\ Raise("ValueError", "time", <<>>)
               /\ UNCHANGED <<current_chord_pattern, melody, chords, is_recording>>
          ELSE IF ts_den = 0
          THEN /\ Raise("ZeroDivisionError", "time", <<>>)
               /\ UNCHANGED <<current_chord_pattern, melody, chords, is_recording>>
          ELSE /\ status' = "run"
               /\ error' = NoError
               /\ current_chord_pattern' =
                      get_chord_pattern(meta.CHORD_PATTERN, <<ts_num, ts_den>>)
               /\ melody' = << Msg("set_tempo", -1, 0), Msg("time_signature", -1, 0),
                               Msg("track_name", -1, 0) >>
               /\ chords' = << Msg("program_change", -1, 0), Msg("track_name", -1, 0) >>
               /\ is_recording' = (meta.from_measure <= 1)
    /\ i' = 0
    /\ cur_tick' = 0
    /\ delta_melody' = 0
    /\ measure_beats' = 0
    /\ current_measure' = 1
    /\ measure_start_tick' = 0
    /\ chord_active' = <<>>
    /\ chord_last_tick' = 0
    /\ UNCHANGED <<meta, toks, click, call>>

\* "if to_measure is not None and current_measure > to_measure: break"
ToMeasureBreak == meta.to_measure # None /\ current_measure > meta.to_measure

\* the loop body runs on toks[i]
InLoop == status = "run" /\ i < n /\ ~ToMeasureBreak

\* variant: a directive that cannot be parsed falls back to the block strategy
DirectivePatternReset(tok, cur) ==
    IF Contains(Upper(tok), CHORD_PATTERN_KEY) /\ HasEquals(tok)
    THEN get_chord_pattern(Strip(AfterEquals(tok)), <<4, 4>>)
    ELSE get_chord_pattern(<<"b","l","o","c","k">>, <<4, 4>>)

\* lines 129-135: the strategy after the directive tok, cur being the one before
DirectivePattern(tok, cur) ==
    IF Contains(Upper(tok), CHORD_PATTERN_KEY) /\ HasEquals(tok)
    THEN get_chord_pattern(Strip(AfterEquals(tok)), <<4, 4>>)
    ELSE cur

\* lines 128-137
Directive ==
    /\ InLoop
    /\ StartsWith(Tok(i), "#")
    /\ current_chord_pattern' = DirectivePattern(Tok(i), current_chord_pattern)
    /\ i' = i + 1
    /\ UNCHANGED <<meta, toks, cur_tick, delta_melody, measure_beats, current_measure,
                   is_recording, measure_start_tick, chord_active, chord_last_tick,
                   melody, chords, click, status, error, call>>

\* lines 139-155
MeasureLine ==
    /\ InLoop
    /\ Tok(i) \in MeasureLines
    /\ LET left == beats_per_measure - measure_beats
           pad_ticks == IF LeftOver(left) /\ is_recording THEN Ticks(left) ELSE 0
       IN IF LeftUnder(left)
          THEN /\ Raise("ValueError", "overflow", <<>>)
               /\ UNCHANGED <<i, cur_tick, delta_melody, measure_beats, current_measure,
                              is_recording, measure_start_tick>>
          ELSE /\ delta_melody' = delta_melody + pad_ticks
               /\ cur_tick' = cur_tick + pad_ticks
               /\ measure_start_tick' = cur_tick + pad_ticks
               /\ measure_beats' = 0
               /\ current_measure' = current_measure + 1
               /\ is_recording' = (current_measure + 1 >= meta.from_measure)
               /\ i' = i + 1
               /\ UNCHANGED <<status, error>>
    /\ UNCHANGED <<meta, toks, chord_active, chord_last_tick, current_chord_pattern,
                   melody, chords, click, call>>

\* the token is neither a directive nor a measure line
IsBodyTok(tok) == ~StartsWith(tok, "#") /\ tok \notin MeasureLines

\* lines 157-160
SkipNotRecording ==
    /\ InLoop
    /\ IsBodyTok(Tok(i))
    /\ ~is_recording
    /\ i' = i + 1
    /\ UNCHANGED <<meta, toks, cur_tick, delta_melody, measure_beats, current_measure,
                   is_recording, measure_start_tick, chord_active, chord_last_tick,
                   current_chord_pattern, melody, chords, click, status, error, call>>

\* lines 162-171
Rest ==
    /\ InLoop
    /\ IsBodyTok(Tok(i))
    /\ is_recording
    /\ REST_RE(Tok(i)).ok
    /\ LET m_rest == REST_RE(Tok(i))
           beats == _beats(m_rest.dur, m_rest.dots, unit)
           ticks == Ticks(beats)
       IN IF beats_raises(m_rest.dur)
          THEN /\ Raise("ValueError", "float", m_rest.dur)
               /\ UNCHANGED <<i, cur_tick, delta_melody, measure_beats>>
          ELSE /\ delta_melody' = delta_melody + ticks
               /\ cur_tick' = cur_tick + ticks
               /\ measure_beats' = measure_beats + beats
               /\ i' = i + 1
               /\ UNCHANGED <<status, error>>
    /\ UNCHANGED <<meta, toks, current_measure, is_recording, measure_start_tick,
                   chord_active, chord_last_tick, current_chord_pattern,
                   melody, chords, click, call>>

\* lines 247-291: the new chord sounds from cur_tick, after the old one is closed
StartChord(closing, last_closed, span, new_chord) ==
    LET args == GenerateEventsArgs(new_chord.notes, cur_tick, span, last_closed)
    IN IF span.err
       THEN /\ Raise("ValueError", "float", Tok(i))
            /\ chords' = chords \o closing
            /\ chord_last_tick' = last_closed
            /\ UNCHANGED <<i, chord_active>>
       ELSE IF new_chord.err # ""
       THEN /\ Raise(new_chord.err, "root", Tok(i))
            /\ chords' = chords \o closing
            /\ chord_last_tick' = last_closed
            /\ UNCHANGED <<i, chord_active>>
       ELSE IF Len(new_chord.notes) = 0
       THEN /\ chords' = chords \o closing
            /\ chord_last_tick' = last_closed
            /\ chord_active' = <<>>
            /\ i' = i + 1
            /\ UNCHANGED <<status, error>>
       ELSE IF Len(args) # GenerateEventsParams
       THEN /\ Raise("TypeError", "generate_events", Tok(i))
            /\ chords' = chords \o closing
            /\ chord_last_tick' = last_closed
            /\ UNCHANGED <<i, chord_active>>
       ELSE LET g == generate_events(current_chord_pattern, args[1], args[2],
                                     args[3], args[5])
            IN /\ chords' = (chords \o closing) \o g.events
               /\ chord_last_tick' = g.ret
               /\ chord_active' = new_chord.notes
               /\ i' = i + 1
               /\ UNCHANGED <<status, error>>

\* lines 173-291
ChordSymbol ==
    /\ InLoop
    /\ IsBodyTok(Tok(i))
    /\ is_recording
    /\ ~REST_RE(Tok(i)).ok
    /\ IsChordTok(Tok(i))
    /\ StartChord(CloseChord(chord_active, cur_tick, chord_last_tick),
                  IF Len(chord_active) > 0 THEN cur_tick ELSE chord_last_tick,
                  ChordSpan(i, cur_tick),
                  _parse_chord(Tok(i)))
    /\ UNCHANGED <<meta, toks, cur_tick, delta_melody, measure_beats, current_measure,
                   is_recording, measure_start_tick, current_chord_pattern,
                   melody, click, call>>

\* lines 293-324
Note ==
    /\ InLoop
    /\ IsBodyTok(Tok(i))
    /\ is_recording
    /\ ~REST_RE(Tok(i)).ok
    /\ ~IsChordTok(Tok(i))
    /\ LET m == NOTE_RE(Tok(i))
       IN IF ~m.ok
          THEN /\ status' = "ValueError"
               /\ error' = ParseError(Tok(i))
               /\ UNCHANGED <<i, cur_tick, delta_melody, measure_beats, melody>>
          ELSE IF beats_raises(m.dur)
          THEN /\ Raise("ValueError", "float", m.dur)
               /\ UNCHANGED <<i, cur_tick, delta_melody, measure_beats, melody>>
          ELSE LET pitch == NotePitch(m)
                   t == TieMerge(i, _beats(m.dur, m.dots, unit), m.tie # <<>>, pitch)
                   ticks == Ticks(t.beats)
               IN IF t.err
                  THEN /\ Raise("ValueError", "float", Tok(t.j + 1))
                       /\ UNCHANGED <<i, cur_tick, delta_melody, measure_beats, melody>>
                  ELSE /\ melody' = melody \o NoteMessages(pitch, delta_melody, ticks)
                       /\ delta_melody' = 0
                       /\ cur_tick' = cur_tick + ticks
                       /\ measure_beats' = measure_beats + t.beats
                       /\ i' = t.j + 1
                       /\ UNCHANGED <<status, error>>
    /\ UNCHANGED <<meta, toks, current_measure, is_recording, measure_start_tick,
                   chord_active, chord_last_tick, current_chord_pattern,
                   chords, click, call>>

\* lines 326-368: after the loop
Finish ==
    /\ status = "run"
    /\ ~(i < n) \/ ToMeasureBreak
    /\ LET left == beats_per_measure - measure_beats
           padded == LeftOver(left)
           pad_ticks == IF padded THEN Ticks(left) ELSE 0
           final_tick == cur_tick + pad_ticks
       IN IF LeftUnder(left)
          THEN /\ Raise("ValueError", "overflow", <<>>)
               /\ UNCHANGED <<cur_tick, measure_start_tick, melody, chords, click>>
          ELSE IF meta.metro_on /\ beat_ticks = 0 /\ final_tick > 0
          THEN /\ status' = "hang"
               /\ cur_tick' = final_tick
               /\ measure_start_tick' = IF padded THEN final_tick ELSE measure_start_tick
               /\ melody' = melody
                      \o (IF padded THEN <<NoteOff(0, pad_ticks)>> ELSE <<>>)
                      \o <<EndOfTrack>>
               /\ chords' = chords
                      \o CloseChord(chord_active, final_tick, chord_last_tick)
                      \o <<EndOfTrack>>
               /\ UNCHANGED <<click, error>>
          ELSE /\ status' = "done"
               /\ cur_tick' = final_tick
               /\ measure_start_tick' = IF padded THEN final_tick ELSE measure_start_tick
               /\ melody' = melody
                      \o (IF padded THEN <<NoteOff(0, pad_ticks)>> ELSE <<>>)
                      \o <<EndOfTrack>>
               /\ chords' = chords
                      \o CloseChord(chord_active, final_tick, chord_last_tick)
                      \o <<EndOfTrack>>
               /\ click' = IF meta.metro_on
                           THEN <<Msg("track_name", -1, 0)>>
                                \o Clicks(0, 0, final_tick) \o <<EndOfTrack>>
                           ELSE <<>>
               /\ UNCHANGED error
    /\ UNCHANGED <<meta, toks, i, delta_melody, measure_beats, current_measure,
                   is_recording, chord_active, chord_last_tick,
                   current_chord_pattern, call>>

-----------------------------------------------------------------------------
(* Inputs                                                                  *)

\* longest token list over the full alphabet
MaxLen == 3
\* longest token list tried with every header
MaxSmall == 3

Seqs(A, m) == UNION { [1..k -> A] : k \in 0..m }

RichTokens ==
    { <<"1">>, <<"1","^">>, <<"2">>, <<"1","w">>, <<"1","/","2">>, <<"R">>, <<"|">>, <<"C">>, <<"O">>, <<"x">>, <<"#","C","H","O","R","D","_","P","A","T","T","E","R","N","=","g","u","i","t","a","r">>, <<"#","C","H","O","R","D","_","P","A","T","T","E","R","N">> }

SmallTokens ==
    { <<"1">>, <<"1","h",".">>, <<"R">>, <<"|">>, <<"|","|">>, <<"A","m">>, <<"x">> }

BLOCK == <<"b","l","o","c","k">>

BaseMeta ==
    [UNIT |-> <<"q">>, KEY |-> <<"C">>, TIME |-> <<4, 4>>, CHORD_PATTERN |-> BLOCK,
     from_measure |-> 0, to_measure |-> None, metro_on |-> FALSE,
     metro_vel |-> <<90, 60>>]

Metas ==
    { BaseMeta,
      [BaseMeta EXCEPT !.from_measure = 2],
      [BaseMeta EXCEPT !.to_measure = 1],
      [BaseMeta EXCEPT !.TIME = <<3, 4>>],
      [BaseMeta EXCEPT !.TIME = <<6, 8>>, !.metro_on = TRUE],
      [BaseMeta EXCEPT !.UNIT = <<"S">>],
      [BaseMeta EXCEPT !.KEY = <<"g">>, !.CHORD_PATTERN = <<"A","r","p","e","g","g","i","o">>],
      [BaseMeta EXCEPT !.KEY = <<"H">>],
      [BaseMeta EXCEPT !.KEY = <<"C","m","a","j">>],
      [BaseMeta EXCEPT !.TIME = <<4, 3>>],
      [BaseMeta EXCEPT !.TIME = <<4, 0>>],
      [BaseMeta EXCEPT !.TIME = <<3, 4>>, !.metro_on = TRUE, !.metro_vel = <<100, 50>>],
      [BaseMeta EXCEPT !.TIME = <<2, 2>>, !.metro_on = TRUE] }

\* the scenarios of the specification's testable properties
Scenarios ==
    { << <<"1","q">>, <<"1","q">>, <<"1","q">>, <<"1","q">> >>,
      << <<"1","q">>, <<"1","q">>, <<"1","q">>, <<"1","q">>, <<"|">> >>,
      << <<"1","q">>, <<"1","q">>, <<"1","q">>, <<"1","q">>, <<"1","q">> >>,
      << <<"1","q">>, <<"1","q">>, <<"1","q">>, <<"1","q">>, <<"1","q">>, <<"|">> >>,
      << <<"C">>, <<"1">>, <<"2">>, <<"3">>, <<"4">>, <<"|">> >>,
      << <<"1","^">>, <<"1">>, <<"1","^">> >>,
      << <<"1","^">>, <<"1","^">>, <<"1">> >>,
      << <<"R","w">> >>,
      << <<"R","w">>, <<"|">> >>,
      << <<"R","h">>, <<"0">>, <<"R","e">>, <<"R","e">>, <<"|">> >>,
      << <<"R","/","4">> >>,
      << <<"R","/","2">>, <<"R","/","2">>, <<"|">> >> }

RHYTHMIC == <<"r","h","y","t","h","m","i","c">>

\* scenarios with a header of their own: a dotted t under UNIT=s, a metronome
\* under a denominator above 1920, an inline directive under TIME=3/4
HeaderScenarios ==
    { << [BaseMeta EXCEPT !.UNIT = <<"s">>], << <<"1","t",".">>, <<"|">> >> >>,
      << [BaseMeta EXCEPT !.UNIT = <<"s">>], << <<"1","t",".">> >> >>,
      << [BaseMeta EXCEPT !.TIME = <<4, 2048>>, !.metro_on = TRUE], << <<"|">> >> >>,
      << [BaseMeta EXCEPT !.TIME = <<4, 2048>>, !.metro_on = TRUE], <<>> >>,
      << [BaseMeta EXCEPT !.TIME = <<3, 4>>, !.CHORD_PATTERN = RHYTHMIC],
         << <<"O">>, <<"#","C","H","O","R","D","_","P","A","T","T","E","R","N","=">> \o RHYTHMIC >> >>,
      << [BaseMeta EXCEPT !.TIME = <<3, 4>>],
         << <<"#","C","H","O","R","D","_","P","A","T","T","E","R","N","=">> \o RHYTHMIC, <<"O">> >> >>,
      << BaseMeta, << <<"O">>, <<"1">>, <<"|">>, <<"O">> >> >>,
      << BaseMeta, << <<"O">>, <<"1">>, <<"2">>, <<"O">> >> >> }

Inputs ==
    ({BaseMeta} \X Seqs(RichTokens, MaxLen))
    \cup (Metas \X Seqs(SmallTokens, MaxSmall))
    \cup ({BaseMeta} \X Scenarios)
    \cup HeaderScenarios

Init ==
    /\ \E in \in Inputs : meta = in[1] /\ toks = in[2]
    /\ status = "start"
    /\ error = NoError
    /\ i = 0
    /\ cur_tick = 0
    /\ delta_melody = 0
    /\ measure_beats = 0
    /\ current_measure = 1
    /\ is_recording = FALSE
    /\ measure_start_tick = 0
    /\ chord_active = <<>>
    /\ chord_last_tick = 0
    /\ current_chord_pattern = Pattern("block", <<4, 4>>, <<>>)
    /\ melody = <<>>
    /\ chords = <<>>
    /\ click = <<>>
    /\ call = [op |-> "none"]

Next ==
    \/ Setup
    \/ Directive
    \/ MeasureLine
    \/ SkipNotRecording
    \/ Rest
    \/ ChordSymbol
    \/ Note
    \/ Finish

Spec == Init /\ [][Next]_vars

-----------------------------------------------------------------------------
(* Direct calls of the chord resolver                                      *)

RootLetters == {"A","B","C","D","E","F","G","a","b","c","d","e","f","g","H","h"}

\* a root: a letter and an optional accidental
ChordRoots == { <<l>> \o a : l \in RootLetters, a \in { <<>>, <<"#">>, <<"b">> } }

\* the quality suffixes the documentation lists, as it writes them
DocumentedSuffixes ==
    { <<>>, <<"m">>, <<"d","i","m">>, <<"o">>, <<"a","u","g">>, <<"+">>,
      <<"s","u","s","4">>, <<"s","u","s","2">>, <<"7">>, <<"m","7">>,
      <<"m","a","j","7">>, <<"M","7">>, <<"m","7","b","5">>,
      <<"d","i","m","7">>, <<"o","7">>, <<"6">>, <<"m","6">>, <<"9">> }

\* other suffixes
OtherSuffixes ==
    { <<"m","i","n","7">>, <<"7","(","9",")">>, <<"M">>, <<"m","a","j","9">>,
      <<"1","3">>, <<"a","d","d","9">>, <<"x">>, <<"S","U","S","4">>,
      <<"D","i","m">>, <<"M","A","J","7">>, <<"m","M","7">>, <<"5">> }

InitCall(st) ==
    /\ meta = BaseMeta
    /\ toks = <<>>
    /\ status = st
    /\ error = NoError
    /\ i = 0
    /\ cur_tick = 0
    /\ delta_melody = 0
    /\ measure_beats = 0
    /\ current_measure = 1
    /\ is_recording = FALSE
    /\ measure_start_tick = 0
    /\ chord_active = <<>>
    /\ current_chord_pattern = Pattern("block", <<4, 4>>, <<>>)
    /\ melody = <<>>
    /\ chords = <<>>
    /\ click = <<>>
    /\ call = [op |-> "none"]

InitChord == InitCall("resolve") /\ chord_last_tick = 0

\* Chord(sym) for sym = root + suffix
ParseChordSym(root, suffix) ==
    LET sym == root \o suffix
        r == _parse_chord(sym)
    IN /\ status = "resolve"
       /\ call' = [op |-> "_parse_chord", sym |-> sym, root |-> root, suffix |-> suffix]
       /\ status' = IF r.err = "" THEN "resolved" ELSE r.err
       /\ error' = IF r.err = "" THEN NoError ELSE Err("root", sym)
       /\ chord_active' = r.notes
       /\ UNCHANGED <<meta, toks, i, cur_tick, delta_melody, measure_beats,
                      current_measure, is_recording, measure_start_tick,
                      chord_last_tick, current_chord_pattern, melody, chords, click>>

ParseChord ==
    \E root \in ChordRoots, suffix \in DocumentedSuffixes \cup OtherSuffixes :
        ParseChordSym(root, suffix)

\* Chord('O') and Chord('o')
ParseNoChord == \E sym \in { <<"O">>, <<"o">> } : ParseChordSym(sym, <<>>)

NextChordCall == ParseChord \/ ParseNoChord

SpecChord == InitChord /\ [][NextChordCall]_vars

-----------------------------------------------------------------------------
(* Direct calls of the strategies                                          *)

\* durations 1..MaxSmallDur are all tried
MaxSmallDur == 4

Durations == (1..MaxSmallDur) \cup {7, 47, 100, 480, 1000, 1440, 1920}
StartTicks == {0, 480}
LastTicks == {0, 100, 960}
TimeSigs == { <<4, 4>>, <<3, 4>>, <<6, 8>>, <<2, 4>>, <<5, 4>> }
PatternChordSyms == { <<"C">>, <<"A","m">>, <<"G","7">>, <<"D","9">>, <<"O">> }

InitPattern == InitCall("strategy") /\ chord_last_tick \in LastTicks

\* get_chord_pattern(name, ts).generate_events(Chord(sym), start, duration, chords, chord_last_tick)
GenerateEvents ==
    \E name \in PatternNames, ts \in TimeSigs, sym \in PatternChordSyms,
       start_tick \in StartTicks, duration_ticks \in Durations :
        LET pat == get_chord_pattern(name, ts)
            notes == _parse_chord(sym).notes
            g == generate_events(pat, notes, start_tick, duration_ticks, chord_last_tick)
        IN /\ status = "strategy"
           /\ status' = "generated"
           /\ call' = [op |-> "generate_events", name |-> name, ts |-> ts,
                       start_tick |-> start_tick, duration_ticks |-> duration_ticks,
                       last_tick |-> chord_last_tick]
           /\ current_chord_pattern' = pat
           /\ chord_active' = notes
           /\ chords' = chords \o g.events
           /\ chord_last_tick' = g.ret
           /\ UNCHANGED <<meta, toks, i, cur_tick, delta_melody, measure_beats,
                          current_measure, is_recording, measure_start_tick,
                          melody, click, error>>

NextPattern == GenerateEvents

SpecPattern == InitPattern /\ [][NextPattern]_vars

-----------------------------------------------------------------------------
(* main.py: ScoreParser (lines 43-62)                                      *)
(* The text is a sequence of characters; "\n" ends a line and " " is the   *)
(* blank. self.meta is a function from keys to values, self.tokens is toks. *)

NL == "\n"

\* text.splitlines(): the pieces between line ends, no piece after a final one
RECURSIVE splitlines(_)
splitlines(text) ==
    IF text = <<>> THEN <<>>
    ELSE LET brk == { k \in DOMAIN text : text[k] = NL }
         IN IF brk = {} THEN <<text>>
            ELSE LET p == CHOOSE k \in brk : \A k2 \in brk : k <= k2
                 IN <<SubSeq(text, 1, p - 1)>>
                        \o splitlines(SubSeq(text, p + 1, Len(text)))

\* str.rstrip()
rstrip(str) ==
    LET nonBlank == { k \in DOMAIN str : str[k] # " " }
    IN IF nonBlank = {} THEN <<>>
       ELSE SubSeq(str, 1, CHOOSE a \in nonBlank : \A b \in nonBlank : a >= b)

\* str.split(): the maximal runs of non-blank characters
RECURSIVE split(_)
split(str) ==
    LET nonBlank == { k \in DOMAIN str : str[k] # " " }
    IN IF nonBlank = {} THEN <<>>
       ELSE LET a == CHOOSE k \in nonBlank : \A k2 \in nonBlank : k <= k2
                e == RunEnd(str, a, Range(str) \ {" "})
            IN <<SubSeq(str, a, e - 1)>> \o split(SubSeq(str, e, Len(str)))

\* "(l.rstrip() for l in text.splitlines() if l.strip())"
NonBlankLines(text) ==
    LET ls == SelectSeq(splitlines(text), LAMBDA l : Strip(l) # <<>>)
    IN [k \in DOMAIN ls |-> rstrip(ls[k])]

\* d[k] = v
DictSet(d, k, v) == [x \in DOMAIN d \cup {k} |-> IF x = k THEN v ELSE d[x]]

\* d.get(k, default)
DictGet(d, k, default) == IF k \in DOMAIN d THEN d[k] ELSE default

\* "k, v = line[1:].split('=', 1); self.meta[k.strip().upper()] = v.strip()"
\* for a line that holds an '=' after its '#'
Assign(d, line) ==
    LET p == CHOOSE k \in 2..Len(line) :
                 line[k] = "=" /\ \A k2 \in 2..(k - 1) : line[k2] # "="
    IN DictSet(d, Upper(Strip(SubSeq(line, 2, p - 1))),
                  Strip(SubSeq(line, p + 1, Len(line))))

\* the first loop of _parse over lines[k..]: [err, meta, body]
RECURSIVE ParseLines(_, _, _, _)
ParseLines(lines, k, d, body) ==
    IF k > Len(lines) THEN [err |-> FALSE, meta |-> d, body |-> body]
    ELSE LET line == lines[k]
         IN IF StartsWith(line, ";") THEN ParseLines(lines, k + 1, d, body)
            ELSE IF StartsWith(line, "#")
            THEN IF ~HasEquals(line) THEN [err |-> TRUE, meta |-> d, body |-> body]
                 ELSE ParseLines(lines, k + 1, Assign(d, line), body)
            ELSE ParseLines(lines, k + 1, d, Append(body, line))

\* the second loop of _parse: the tokens of the body lines
Tokens(body) == Flatten([k \in DOMAIN body |-> split(body[k])])

\* ScoreParser(text): [err, meta, tokens]
_parse(text) ==
    LET r == ParseLines(NonBlankLines(text), 1, <<>>, <<>>)
    IN [err |-> r.err, meta |-> r.meta, tokens |-> Tokens(r.body)]

\* int(x) for a string of decimal digits
RECURSIVE IntOf(_)
IntOf(str) ==
    IF str = <<>> THEN 0
    ELSE 10 * IntOf(SubSeq(str, 1, Len(str) - 1)) + DigitVal(str[Len(str)])

KEY_TIME == <<"T","I","M","E">>

\* "(int(x) for x in parser.meta.get('TIME', '4/4').split('/'))" for a value "N/D"
TimeOf(d) ==
    LET v == DictGet(d, KEY_TIME, <<"4","/","4">>)
        p == CHOOSE k \in DOMAIN v : v[k] = "/"
    IN << IntOf(SubSeq(v, 1, p - 1)), IntOf(SubSeq(v, p + 1, Len(v))) >>

\* lines 85-88: the strategy build_midi starts with
HeaderPattern(d) == get_chord_pattern(DictGet(d, CHORD_PATTERN_KEY, BLOCK), TimeOf(d))

\* the strategies the loop of build_midi holds when it meets the chord symbols
\* of tokens[k..], in order, cur being the strategy at tokens[k]
RECURSIVE ChordStrategies(_, _, _)
ChordStrategies(tokens, k, cur) ==
    IF k > Len(tokens) THEN <<>>
    ELSE IF StartsWith(tokens[k], "#")
    THEN ChordStrategies(tokens, k + 1, DirectivePattern(tokens[k], cur))
    ELSE IF IsBodyTok(tokens[k]) /\ ~REST_RE(tokens[k]).ok /\ IsChordTok(tokens[k])
    THEN <<cur>> \o ChordStrategies(tokens, k + 1, cur)
    ELSE ChordStrategies(tokens, k + 1, cur)

\* longest text, in lines
MaxLines == 3

TextLines ==
    { <<"#","K","E","Y","=","G">>,
      <<"#"," ","c","h","o","r","d","_","p","a","t","t","e","r","n"," ","=",
        " ","a","r","p","e","g","g","i","o"," ">>,
      <<"#","T","I","M","E","=","3","/","4">>,
      <<";","c">>,
      <<" "," ">>,
      <<"C"," ","1"," ","2"," ","|">>,
      <<" ","A","m"," "," ","R"," ","|","|">>,
      <<"#","C","H","O","R","D","_","P","A","T","T","E","R","N","=","g","u","i","t","a","r">>,
      <<"#","C","H","O","R","D","_","P","A","T","T","E","R","N","=",
        "r","h","y","t","h","m","i","c">>,
      <<"1"," ","#","C","H","O","R","D","_","P","A","T","T","E","R","N","=",
        "g","u","i","t","a","r"," ","G">>,
      <<"#","X">> }

\* "\n".join(lines)
RECURSIVE Join(_)
Join(lines) ==
    IF lines = <<>> THEN <<>>
    ELSE IF Len(lines) = 1 THEN lines[1]
    ELSE lines[1] \o <<NL>> \o Join(Tail(lines))

Texts == { Join(ls) : ls \in Seqs(TextLines, MaxLines) }

InitParse ==
    /\ call \in { [op |-> "text", text |-> t] : t \in Texts }
    /\ meta = BaseMeta
    /\ toks = <<>>
    /\ status = "text"
    /\ error = NoError
    /\ i = 0
    /\ cur_tick = 0
    /\ delta_melody = 0
    /\ measure_beats = 0
    /\ current_measure = 1
    /\ is_recording = FALSE
    /\ measure_start_tick = 0
    /\ chord_active = <<>>
    /\ chord_last_tick = 0
    /\ current_chord_pattern = Pattern("block", <<4, 4>>, <<>>)
    /\ melody = <<>>
    /\ chords = <<>>
    /\ click = <<>>

\* parser = ScoreParser(text)
Parse ==
    /\ status = "text"
    /\ LET r == _parse(call.text)
       IN IF r.err
          THEN /\ Raise("ValueError", "unpack", <<>>)
               /\ UNCHANGED <<toks, call>>
          ELSE /\ status' = "parsed"
               /\ toks' = r.tokens
               /\ call' = [op |-> "ScoreParser", text |-> call.text, meta |-> r.meta]
               /\ UNCHANGED error
    /\ UNCHANGED <<meta, i, cur_tick, delta_melody, measure_beats, current_measure,
                   is_recording, measure_start_tick, chord_active, chord_last_tick,
                   current_chord_pattern, melody, chords, click>>

NextParse == Parse

SpecParse == InitParse /\ [][NextParse]_vars

-----------------------------------------------------------------------------
(* Properties                                                              *)

\* the note_on / note_off messages of a track
IsNoteMsg(e) == e.type \in {"note_on", "note_off"}
NoteEvents(track) == SelectSeq(track, IsNoteMsg)

\* the root of a symbol as a pitch name: letter upper-cased, accidental kept
RootName(root) == <<UpperChar(root[1])>> \o Tail(root)

\* the interval set the documentation gives for a suffix
DocumentedIntervals(suffix) ==
    CASE suffix = <<>> -> <<0, 4, 7>>
      [] suffix = <<"m">> -> <<0, 3, 7>>
      [] suffix = <<"d","i","m">> -> <<0, 3, 6>>
      [] suffix = <<"o">> -> <<0, 3, 6>>
      [] suffix = <<"a","u","g">> -> <<0, 4, 8>>
      [] suffix = <<"+">> -> <<0, 4, 8>>
      [] suffix = <<"s","u","s","4">> -> <<0, 5, 7>>
      [] suffix = <<"s","u","s","2">> -> <<0, 2, 7>>
      [] suffix = <<"7">> -> <<0, 4, 7, 10>>
      [] suffix = <<"m","7">> -> <<0, 3, 7, 10>>
      [] suffix = <<"m","a","j","7">> -> <<0, 4, 7, 11>>
      [] suffix = <<"M","7">> -> <<0, 4, 7, 11>>
      [] suffix = <<"m","7","b","5">> -> <<0, 3, 6, 10>>
      [] suffix = <<"d","i","m","7">> -> <<0, 3, 6, 9>>
      [] suffix = <<"o","7">> -> <<0, 3, 6, 9>>
      [] suffix = <<"6">> -> <<0, 4, 7, 9>>
      [] suffix = <<"m","6">> -> <<0, 3, 7, 9>>
      [] suffix = <<"9">> -> <<0, 4, 7, 10, 14>>

\* root pitch (one octave below NOTE2MIDI) plus the intervals
ChordOf(root, intervals) ==
    [k \in DOMAIN intervals |-> NOTE2MIDI[RootName(root)] - 12 + intervals[k]]

\* C8: for every known root and every documented quality suffix the resolver
\* returns the root pitch, one octave below the melody register, plus exactly
\* the documented intervals, in order (3, 4 or 5 pitches).
C8_DocumentedQualities ==
    (/\ call.op = "_parse_chord"
     /\ RootName(call.root) \in DOMAIN NOTE2MIDI
     /\ call.suffix \in DocumentedSuffixes)
    => /\ status = "resolved"
       /\ chord_active = ChordOf(call.root, DocumentedIntervals(call.suffix))
       /\ Len(chord_active) = Len(DocumentedIntervals(call.suffix))

\* the qualities of the table of _parse_chord, case-folded
TableQualities ==
    { <<"m">>, <<"a","u","g">>, <<"+">>, <<"d","i","m">>, <<"o">>, <<"°">>, <<"s","u","s","4">>, <<"s","u","s","2">>,
      <<"7">>, <<"m","7">>, <<"m","i","n","7">>, <<"m","a","j","7">>, <<"m","7","b","5">>, <<"ø">>, <<"d","i","m","7">>,
      <<"o","7">>, <<"°","7">>, <<"6">>, <<"m","6">>, <<"9">>, <<"7","(","9",")">> }

\* C9: the resolver returns the empty list for O and o; it fails with
\* ValueError when the root is not a known pitch name; for a known root with a
\* suffix that is not in the quality table it returns the major triad on the
\* root without raising.
C9_ResolverFallbacks ==
    call.op = "_parse_chord" =>
        /\ call.sym \in { <<"O">>, <<"o">> }
              => status = "resolved" /\ chord_active = <<>>
        /\ (call.sym \notin { <<"O">>, <<"o">> }
            /\ RootName(call.root) \notin DOMAIN NOTE2MIDI)
              => status = "ValueError" /\ error = Err("root", call.sym)
        /\ (/\ call.sym \notin { <<"O">>, <<"o">> }
            /\ RootName(call.root) \in DOMAIN NOTE2MIDI
            /\ Lower(call.suffix) \notin TableQualities
            /\ call.suffix # <<>>)
              => /\ status = "resolved"
                 /\ chord_active = ChordOf(call.root, <<0, 4, 7>>)

\* C9 witness: a known root with an unknown suffix has been resolved
C9_Witness ==
    /\ call.op = "_parse_chord"
    /\ call.sym = <<"E","b","a","d","d","9">>
    /\ status = "resolved"
    /\ chord_active = <<51, 55, 58>>

\* sum of the delta-times of a track
RECURSIVE TrackLength(_)
TrackLength(track) ==
    IF track = <<>> THEN 0 ELSE track[1].time + TrackLength(Tail(track))

\* C5: for every strategy, every non-empty chord, every lastEventTick <=
\* startTick and every durationTicks >= 1, the last release emitted by
\* generate_events is at an absolute time >= startTick + durationTicks.
C5_LastReleaseCoversDuration ==
    (/\ call.op = "generate_events"
     /\ Len(chord_active) > 0
     /\ call.last_tick <= call.start_tick
     /\ call.duration_ticks >= 1)
    => /\ Len(chords) > 0
       /\ chords[Len(chords)].type = "note_off"
       /\ call.last_tick + TrackLength(chords) >= call.start_tick + call.duration_ticks

-----------------------------------------------------------------------------
(* Properties of build_midi                                                *)

Terminated == status \notin {"start", "run"}

FourQuarters == { << <<"1","q">>, <<"1","q">>, <<"1","q">>, <<"1","q">> >>,
                  << <<"1","q">>, <<"1","q">>, <<"1","q">>, <<"1","q">>, <<"|">> >> }
FiveQuarters == { << <<"1","q">>, <<"1","q">>, <<"1","q">>, <<"1","q">>, <<"1","q">> >>,
                  << <<"1","q">>, <<"1","q">>, <<"1","q">>, <<"1","q">>, <<"1","q">>, <<"|">> >> }

\* the measure check is the next thing build_midi does
AtMeasureCheck == status = "run" /\ (~InLoop \/ Tok(i) \in MeasureLines)

\* C1: at every measure line and at the end of the input, more beats in the
\* measure than the time signature allows abort with ValueError (overflow), and
\* exactly the allowed beats raise nothing; four 1q in 4/4 compile, five raise.
C1_MeasureOverflow ==
    /\ [][AtMeasureCheck =>
            /\ measure_beats > beats_per_measure
                  => status' = "ValueError" /\ error' = Err("overflow", <<>>)
            /\ measure_beats = beats_per_measure
                  => status' \in {"run", "done"}]_vars
    /\ []((meta = BaseMeta /\ toks \in FourQuarters /\ Terminated)
              => status = "done")
    /\ []((meta = BaseMeta /\ toks \in FiveQuarters /\ Terminated)
              => status = "ValueError" /\ error = Err("overflow", <<>>))

\* C1 witness: five quarter notes in 4/4 have raised the overflow error
C1_Witness ==
    /\ meta = BaseMeta
    /\ toks \in FiveQuarters
    /\ measure_beats > beats_per_measure
    /\ status = "ValueError"
    /\ error = Err("overflow", <<>>)

C2Tokens == << <<"C">>, <<"1">>, <<"2">>, <<"3">>, <<"4">>, <<"|">> >>

\* C2: "C 1 2 3 4 |" in C, 4/4, block strategy compiles without error into four
\* melody notes 60, 62, 64, 65 of 480 ticks and one chord group 48, 52, 55
\* released 1920 ticks after its onset.
C2_EndToEnd ==
    (meta = BaseMeta /\ toks = C2Tokens /\ Terminated)
    => /\ status = "done"
       /\ NoteEvents(melody) =
              << NoteOn(60, 0), NoteOff(60, 480), NoteOn(62, 0), NoteOff(62, 480),
                 NoteOn(64, 0), NoteOff(64, 480), NoteOn(65, 0), NoteOff(65, 480) >>
       /\ NoteEvents(chords) =
              << NoteOn(48, 0), NoteOn(52, 0), NoteOn(55, 0),
                 NoteOff(48, 1920), NoteOff(52, 0), NoteOff(55, 0) >>

\* the loop is about to process a note token
AtNote ==
    /\ InLoop
    /\ is_recording
    /\ NOTE_RE(Tok(i)).ok

\* sum of the durations of the note tokens a .. b-1 (0-based), in beats
RECURSIVE BeatsOfNotes(_, _)
BeatsOfNotes(a, b) ==
    IF a >= b THEN 0
    ELSE (IF beats_raises(NOTE_RE(Tok(a)).dur) THEN 0
          ELSE _beats(NOTE_RE(Tok(a)).dur, NOTE_RE(Tok(a)).dots, unit))
         + BeatsOfNotes(a + 1, b)

\* C3: every note token processed appends exactly one onset (delta = pending
\* melody delta) and one release (delta = merged duration in ticks) of its
\* pitch, resets the pending delta, advances the tick and the measure beats by
\* the merged duration and leaves the chord track alone.
C3_NoteStep ==
    [][AtNote =>
        LET merged == BeatsOfNotes(i, i')
        IN /\ i' > i
           /\ melody' = melody \o << NoteOn(NotePitch(NOTE_RE(Tok(i))), delta_melody),
                                      NoteOff(NotePitch(NOTE_RE(Tok(i))), Ticks(merged)) >>
           /\ delta_melody' = 0
           /\ cur_tick' = cur_tick + Ticks(merged)
           /\ measure_beats' = measure_beats + merged
           /\ chords' = chords]_vars

C4Tokens == << <<"1","^">>, <<"1">>, <<"1","^">> >>

\* C4 (as stated): 1^ 1 1^ compiles into one melody note, onset at tick 0,
\* release 1440 ticks later.
C4_OneMergedNote ==
    (meta = BaseMeta /\ toks = C4Tokens /\ status = "done")
    => NoteEvents(melody) = << NoteOn(60, 0), NoteOff(60, 1440) >>

\* C4 (amended): 1^ 1 1^ compiles into two notes of the same pitch: the first
\* two tokens merge into an onset at tick 0 released after 960 ticks, the third
\* token is a note of its own, onset at once and release after 480 ticks; the
\* final padding of the measure then adds one release of pitch 0 after 480 ticks.
C4_TwoNotes ==
    (meta = BaseMeta /\ toks = C4Tokens /\ Terminated)
    => /\ status = "done"
       /\ NoteEvents(melody) =
              << NoteOn(60, 0), NoteOff(60, 960), NoteOn(60, 0), NoteOff(60, 480),
                 NoteOff(0, 480) >>
       /\ cur_tick = 1920

\* C4 witness: the three tokens have been compiled
C4_Witness ==
    /\ meta = BaseMeta
    /\ toks = C4Tokens
    /\ status = "done"
    /\ Len(NoteEvents(melody)) = 5

\* every onset of the track is followed by a release of the same pitch
Balanced(track) ==
    \A k \in DOMAIN track :
        track[k].type = "note_on" =>
            \E l \in (k + 1)..Len(track) :
                track[l].type = "note_off" /\ track[l].note = track[k].note

\* under SpecPattern: what a strategy emits, followed by the release of the
\* sounding chord (main.py:175-183, 338-344), leaves no onset open
StrategyBalanced ==
    status = "generated" =>
        Balanced(chords \o CloseChord(chord_active, chord_last_tick, chord_last_tick))

\* C6: in the melody and the chord track build_midi produces, every onset is
\* followed later in the same track by a release of the same pitch.
C6_NoDanglingOnset ==
    status = "done" =>
        /\ Balanced(melody)
        /\ Balanced(chords)
        /\ melody[Len(melody)] = EndOfTrack
        /\ chords[Len(chords)] = EndOfTrack

\* C6 witness: a finished compilation with a tied note, a second note and a
\* closed chord track
C6_Witness ==
    /\ status = "done"
    /\ Len(NoteEvents(melody)) >= 4
    /\ \E k \in DOMAIN toks : NOTE_RE(toks[k]).ok /\ NOTE_RE(toks[k]).tie # <<>>
    /\ \E k \in DOMAIN toks : toks[k] = <<"O">>

\* the loop is about to process a chord symbol that resolves to a chord
AtChord ==
    /\ InLoop
    /\ is_recording
    /\ IsBodyTok(Tok(i))
    /\ ~REST_RE(Tok(i)).ok
    /\ IsChordTok(Tok(i))
    /\ _parse_chord(Tok(i)).err = ""
    /\ Len(_parse_chord(Tok(i)).notes) > 0
    /\ ~ChordSpan(i, cur_tick).err

\* C7: for a non-empty chord symbol the active strategy is invoked with the
\* chord's computed span as its duration; the call succeeds, its returned tick
\* is recorded and the chord becomes the active chord.
C7_StrategyInvoked ==
    [][AtChord =>
        LET notes == _parse_chord(Tok(i)).notes
            last == IF Len(chord_active) > 0 THEN cur_tick ELSE chord_last_tick
            g == generate_events(current_chord_pattern, notes, cur_tick,
                                 ChordSpan(i, cur_tick).ticks, last)
        IN /\ status' = "run"
           /\ chords' = (chords \o CloseChord(chord_active, cur_tick, chord_last_tick))
                            \o g.events
           /\ chord_last_tick' = g.ret
           /\ chord_active' = notes]_vars

\* the token matches none of the five token classes
Unmatched(tok) ==
    /\ ~StartsWith(tok, "#")
    /\ tok \notin MeasureLines
    /\ ~REST_RE(tok).ok
    /\ ~CHORD_RE(tok)
    /\ ~NOTE_RE(tok).ok

\* C10 (as stated): wherever the loop meets a token of no class, build_midi
\* aborts with the error that names the token.
C10_UnmatchedAlwaysRaises ==
    [][(InLoop /\ Unmatched(Tok(i)))
          => status' = "ValueError" /\ error' = Err("unparseable", Tok(i))]_vars

\* C10 (amended): a token of no class that the loop meets while recording is on
\* makes build_midi abort with the ValueError that names the token; no track
\* grows, no later token is processed and nothing is saved.
C10_UnmatchedRaisesWhenRecording ==
    /\ [][(InLoop /\ is_recording /\ Unmatched(Tok(i)))
            => /\ status' = "ValueError"
               /\ error' = Err("unparseable", Tok(i))
               /\ i' = i
               /\ melody' = melody /\ chords' = chords /\ click' = click]_vars
    /\ [][status # "ValueError"]_vars

\* C10 witness: the second token is of no class and has been reported
C10_Witness ==
    /\ status = "ValueError"
    /\ error = Err("unparseable", <<"x">>)
    /\ i = 1
    /\ Tok(i) = <<"x">>

-----------------------------------------------------------------------------
(* Properties of the Arpeggio and the Guitar-strum strategy                *)

\* the strategy of the last generate_events call
CalledStrategy(name) ==
    /\ call.op = "generate_events"
    /\ Lower(call.name) = name
    /\ Len(chord_active) > 0
    /\ call.duration_ticks >= 1

\* absolute tick of the k-th message of the chord track after the call
RECURSIVE AbsTick(_)
AbsTick(k) == IF k = 0 THEN call.last_tick ELSE AbsTick(k - 1) + chords[k].time

\* C11: Arpeggio emits n onset/release pairs in chord order, back to back,
\* each of d div n ticks except the last, which takes the remainder too, so
\* that the segments sum to d.
C11_ArpeggioSegmentsSumToDuration ==
    CalledStrategy(<<"a","r","p","e","g","g","i","o">>) =>
        LET cnt == Len(chord_active)
            d == call.duration_ticks
            seg(k) == IF k < cnt THEN d \div cnt ELSE d - (cnt - 1) * (d \div cnt)
        IN /\ chords = Flatten([k \in 1..cnt |->
                          << NoteOn(chord_active[k],
                                    IF k = 1 THEN Max(0, call.start_tick - call.last_tick)
                                    ELSE 0),
                             NoteOff(chord_active[k], seg(k)) >>])
           /\ SumSeq([k \in 1..cnt |-> chords[2 * k].time]) = d

\* C12: Guitar strum, called with the track not ahead of startTick, emits the
\* onsets in ascending pitch order at startTick, startTick + s, ... and all the
\* releases at startTick + d.
C12_GuitarReleasesAtDuration ==
    (CalledStrategy(<<"g","u","i","t","a","r">>) /\ call.last_tick <= call.start_tick) =>
        LET cnt == Len(chord_active)
            sorted == Sorted(chord_active)
        IN /\ Len(chords) = 2 * cnt
           /\ \A k \in 1..cnt :
                /\ chords[k].type = "note_on"
                /\ chords[k].note = sorted[k]
                /\ AbsTick(k) = call.start_tick + (k - 1) * 24
                /\ chords[cnt + k].type = "note_off"
                /\ AbsTick(cnt + k) = call.start_tick + call.duration_ticks

-----------------------------------------------------------------------------
(* Properties of the metronome track                                       *)

\* absolute tick of the k-th message of a track that starts at tick 0
RECURSIVE TickAt(_, _)
TickAt(track, k) == IF k = 0 THEN 0 ELSE TickAt(track, k - 1) + track[k].time

\* ticksPerBeat * 4 / denominator
ClickSpacing == (TICKS_PER_BEAT * 4) \div ts_den

\* number of k >= 0 with k * ClickSpacing < t
ClicksBefore(t) == IF t <= 0 THEN 0 ELSE ((t - 1) \div ClickSpacing) + 1

\* C13: the metronome track holds one onset/release pair per beat: click k
\* starts at tick k * B, B = ticksPerBeat * 4 / denominator, for exactly the k
\* with k * B < final tick; its release follows after a fifth of B; its
\* velocity is the accent velocity when k mod numerator = 0, else the normal one.
C13_OneClickPerBeat ==
    (status = "done" /\ meta.metro_on) =>
        LET ev == NoteEvents(click)
            cnt == ClicksBefore(cur_tick)
        IN /\ ClickSpacing * ts_den = TICKS_PER_BEAT * 4
           /\ click = <<Msg("track_name", -1, 0)>> \o ev \o <<EndOfTrack>>
           /\ Len(ev) = 2 * cnt
           /\ \A k \in 0..(cnt - 1) :
                /\ ev[2 * k + 1].type = "note_on"
                /\ TickAt(ev, 2 * k + 1) = k * ClickSpacing
                /\ ev[2 * k + 1].velocity =
                       (IF k % ts_num = 0 THEN meta.metro_vel[1] ELSE meta.metro_vel[2])
                /\ ev[2 * k + 2].type = "note_off"
                /\ 5 * ev[2 * k + 2].time = ClickSpacing

\* C13 witness: a finished compilation whose metronome reaches the first beat
\* of a second measure
C13_Witness ==
    /\ status = "done"
    /\ meta.metro_on
    /\ Len(NoteEvents(click)) >= 2 * (ts_num + 1)
    /\ cur_tick > ts_num * ClickSpacing

-----------------------------------------------------------------------------
(* Properties of the tokenizer and of the inline directive                 *)

\* the lines of a text that are neither blank nor comments
ContentLines(text) ==
    SelectSeq(NonBlankLines(text), LAMBDA l : ~StartsWith(l, ";"))

\* number of '#' lines that precede all musical content
HeaderEnd(ls) ==
    LET body == { k \in DOMAIN ls : ~StartsWith(ls[k], "#") }
    IN IF body = {} THEN Len(ls)
       ELSE (CHOOSE k \in body : \A k2 \in body : k <= k2) - 1

\* the header assignments ls[k..], in order
RECURSIVE AssignAll(_, _, _)
AssignAll(ls, k, d) ==
    IF k > Len(ls) THEN d ELSE AssignAll(ls, k + 1, Assign(d, ls[k]))

\* the metadata the leading '#' lines give
HeaderMeta(text) ==
    LET ls == ContentLines(text)
    IN AssignAll(SubSeq(ls, 1, HeaderEnd(ls)), 1, <<>>)

\* the tokens of every line from the first body line on
BodyTokens(text) ==
    LET ls == ContentLines(text)
    IN Tokens(SubSeq(ls, HeaderEnd(ls) + 1, Len(ls)))

\* every '#' line after the first body line is one directive token
LateLinesAreDirectives(text) ==
    LET ls == ContentLines(text)
    IN \A k \in (HeaderEnd(ls) + 1)..Len(ls) :
           StartsWith(ls[k], "#") =>
               /\ Len(split(ls[k])) = 1
               /\ StartsWith(SubSeq(ls[k], 2, Len(ls[k])), "C")
               /\ Contains(ls[k], CHORD_PATTERN_KEY \o <<"=">>)

\* C14: the chord symbols before an inline #CHORD_PATTERN=<name> directive
\* meet the strategy that was active before it (at first the header's) and
\* the chord symbols after it meet the named strategy, also when the
\* directive is the first token of a body line.
C14_DirectiveChangesStrategyFromItsPlace ==
    (status = "parsed" /\ LateLinesAreDirectives(call.text)) =>
        ChordStrategies(toks, 1, HeaderPattern(call.meta))
            = ChordStrategies(BodyTokens(call.text), 1,
                              HeaderPattern(HeaderMeta(call.text)))

\* C15: the metadata are the assignments of the '#' lines that precede all
\* musical content, and the token list is the blank-separated tokens of the
\* body lines in order, measure lines included; comments and blank lines
\* give nothing and a '#' line after the first body line changes no metadata.
C15_HeaderOnlyBeforeBody ==
    status = "parsed" =>
        /\ call.meta = HeaderMeta(call.text)
        /\ toks = BodyTokens(call.text)

-----------------------------------------------------------------------------
(* Properties of rests                                                     *)

\* the header passes the checks of lines 72-82
ValidHeader ==
    /\ ~_norm_key(meta.KEY).err
    /\ _norm_key(meta.KEY).val \in DOMAIN NOTE2MIDI
    /\ ~DenNotPowerOfTwo(ts_den)
    /\ ts_den # 0

\* the beats the documentation gives a rest token: unit, the letter's beats
\* times unit, or unit * N for /N; one dot * 1.5, two dots * 1.75
DocumentedRestBeats(tok) ==
    LET m == REST_RE(tok)
        b == IF m.dur = <<>> THEN unit
             ELSE IF m.dur[1] = "/" THEN unit * IntOf(Tail(m.dur))
             ELSE (DUR2BEAT[m.dur[1]] * unit) \div BeatScale
    IN IF m.dots = <<>> THEN b
       ELSE IF m.dots = <<".">> THEN (b * 3) \div 2
       ELSE (b * 7) \div 4

\* the tokens are rests, with or without one closing measure line, and the
\* rests fill one measure exactly
FullMeasureOfRests ==
    LET last == IF n > 0 /\ toks[n] \in MeasureLines THEN n - 1 ELSE n
    IN /\ last >= 1
       /\ \A k \in 1..last : REST_RE(toks[k]).ok
       /\ SumSeq([k \in 1..last |-> DocumentedRestBeats(toks[k])]) = beats_per_measure

\* C16: compiling one full measure of rests, with or without the closing
\* measure line, raises no error and puts no onset and no release on the
\* melody track.
C16_FullMeasureOfRestsIsSilent ==
    (Terminated /\ ValidHeader /\ FullMeasureOfRests) =>
        /\ status = "done"
        /\ NoteEvents(melody) = <<>>

-----------------------------------------------------------------------------
(* Properties of the TIME header                                           *)

\* largest exponent tried for a power of two
MaxExp == 11

\* d is one of 1, 2, 4, 8, ...
IsPowerOfTwo(d) == \E e \in 0..MaxExp : d = 2 ^ e

\* C17: build_midi fails with a ValueError, before any note or chord event is
\* written, for every TIME denominator that is not a power of two, and the
\* denominator check fails for no power of two.
C17_DenominatorMustBePowerOfTwo ==
    status # "start" =>
        IF IsPowerOfTwo(ts_den)
        THEN ~(status = "ValueError" /\ error.what = "time")
        ELSE /\ status = "ValueError"
             /\ NoteEvents(melody) = <<>>
             /\ NoteEvents(chords) = <<>>

-----------------------------------------------------------------------------
(* Properties of tie merging                                               *)

\* token k (0-based) is a note that carries the tie marker
TiedAt(k) == NOTE_RE(Tok(k)).ok /\ NOTE_RE(Tok(k)).tie # <<>>

\* token i0 + l continues the run that starts at the note i0: it is a note of
\* the pitch of i0 and the token before it carries the tie marker
Absorbable(i0, l) ==
    /\ i0 + l < n
    /\ NOTE_RE(Tok(i0 + l)).ok
    /\ NotePitch(NOTE_RE(Tok(i0 + l))) = NotePitch(NOTE_RE(Tok(i0)))
    /\ TiedAt(i0 + l - 1)

\* length of the maximal run of tokens absorbed by the note i0
TieRun(i0) ==
    CHOOSE r \in 0..n :
        /\ \A l \in 1..r : Absorbable(i0, l)
        /\ ~Absorbable(i0, r + 1)

\* one of the tokens i0 .. i0 + r has a /N duration
RunHasFraction(i0, r) ==
    \E l \in 0..r : beats_raises(NOTE_RE(Tok(i0 + l)).dur)

\* C18: a note token with a tie marker absorbs the maximal run of following
\* tokens that are notes of its pitch, each preceded by a token with the tie
\* marker; the run yields one onset and one release for the summed duration,
\* and the next token processed is the first one not absorbed.
C18_TieAbsorbsMaximalRun ==
    [][(AtNote /\ TiedAt(i) /\ ~RunHasFraction(i, TieRun(i))) =>
        LET r == TieRun(i)
            pitch == NotePitch(NOTE_RE(Tok(i)))
        IN /\ status' = "run"
           /\ i' = i + r + 1
           /\ melody' = melody \o
                  << NoteOn(pitch, delta_melody),
                     NoteOff(pitch, Ticks(BeatsOfNotes(i, i + r + 1))) >>
           /\ chords' = chords]_vars

\* C18 witness: a tied note has absorbed two tokens, the first of them tied,
\* and the loop stands behind the run
C18_Witness ==
    /\ status = "run"
    /\ i = 3
    /\ TiedAt(0)
    /\ TieRun(0) = 2
    /\ Len(NoteEvents(melody)) = 2

-----------------------------------------------------------------------------
(* Properties of the measure line                                          *)

\* leftover = beatsPerMeasure - measureBeatsSoFar, in model units. The model
\* unit is 1/BeatScale beat, so a leftover beyond epsilon = 1e-6 beat is a
\* leftover of at least one unit.
Leftover == beats_per_measure - measure_beats

\* the loop is about to process a measure line whose measure does not overflow
AtMeasureLine == InLoop /\ Tok(i) \in MeasureLines /\ ~(Leftover < 0)

\* what the measure line leaves alone
MeasureLineFrame ==
    /\ melody' = melody
    /\ chords' = chords
    /\ chord_active' = chord_active
    /\ chord_last_tick' = chord_last_tick
    /\ current_chord_pattern' = current_chord_pattern

\* C19 (as stated): a measure line whose measure does not overflow advances
\* the tick and the pending melody delta by the leftover in ticks when the
\* leftover exceeds epsilon and by 0 otherwise, resets the measure's beats and
\* leaves both tracks, the active chord, the last chord tick and the strategy.
C19_MeasureLinePadsLeftover ==
    [][AtMeasureLine =>
        LET pad == IF Leftover > 0 THEN Ticks(Leftover) ELSE 0
        IN /\ cur_tick' = cur_tick + pad
           /\ delta_melody' = delta_melody + pad
           /\ measure_beats' = 0
           /\ MeasureLineFrame]_vars

\* C19 (amended): the advance is the leftover in ticks when the leftover
\* exceeds epsilon and recording is on, and 0 otherwise.
C19_MeasureLinePadsWhenRecording ==
    [][AtMeasureLine =>
        LET pad == IF Leftover > 0 /\ is_recording THEN Ticks(Leftover) ELSE 0
        IN /\ cur_tick' = cur_tick + pad
           /\ delta_melody' = delta_melody + pad
           /\ measure_beats' = 0
           /\ MeasureLineFrame]_vars

\* C19 witness: the measure line after one note has padded the first measure
C19_Witness ==
    /\ status = "run"
    /\ i = 2
    /\ Tok(1) \in MeasureLines
    /\ NOTE_RE(Tok(0)).ok
    /\ current_measure = 2
    /\ measure_beats = 0
    /\ delta_melody > 0
    /\ cur_tick = measure_total_ticks
    /\ Len(NoteEvents(melody)) = 2

-----------------------------------------------------------------------------
(* Properties of the chord symbol                                          *)

\* the loop is about to process a chord symbol
AtChordSymbol ==
    /\ InLoop
    /\ is_recording
    /\ IsBodyTok(Tok(i))
    /\ ~REST_RE(Tok(i)).ok
    /\ IsChordTok(Tok(i))

\* one release per pitch of the active chord, the first after the ticks
\* elapsed since the last event of the chord track, the others at once
ReleasesOfActive ==
    [k \in 1..Len(chord_active) |->
        NoteOff(chord_active[k],
                IF k = 1 THEN (IF cur_tick > chord_last_tick
                               THEN cur_tick - chord_last_tick ELSE 0)
                ELSE 0)]

\* C20: a chord symbol first appends the releases of the active chord, if
\* any; the symbol O then leaves no chord active and appends no onset; in
\* every case the tick, the pending melody delta, the measure's beats and
\* the melody track stay as they were.
C20_ChordSymbolClosesActive ==
    [][AtChordSymbol =>
        /\ Len(chords') >= Len(chords) + Len(chord_active)
        /\ SubSeq(chords', 1, Len(chords) + Len(chord_active))
               = chords \o ReleasesOfActive
        /\ (Tok(i) = <<"O">> /\ ~ChordSpan(i, cur_tick).err) =>
               /\ status' = "run"
               /\ i' = i + 1
               /\ chord_active' = <<>>
               /\ chords' = chords \o ReleasesOfActive
        /\ cur_tick' = cur_tick
        /\ delta_melody' = delta_melody
        /\ measure_beats' = measure_beats
        /\ melody' = melody]_vars

\* C20 witness: the symbol O has been processed after a note; no chord is
\* active and the chord track holds no onset
C20_Witness ==
    /\ status = "run"
    /\ i = 2
    /\ NOTE_RE(Tok(0)).ok
    /\ Tok(1) = <<"O">>
    /\ chord_active = <<>>
    /\ NoteEvents(chords) = <<>>
    /\ cur_tick > 0

-----------------------------------------------------------------------------
(* End of input, spans, directives, clocks                                 *)

\* the loop has ended and the terminal padding comes next, without overflow
AtFinish == status = "run" /\ ~InLoop /\ ~(Leftover < 0)

\* what a measure line would add to the absolute tick at this point (lines 144-147)
MeasureLinePad ==
    IF LeftOver(Leftover) /\ is_recording THEN Ticks(Leftover) ELSE 0

\* C21: the end of the input acts as one more measure line followed by the
\* closing of the active chord: the absolute tick advances as at a measure
\* line, the padding adds no note event to the melody, and the chord track
\* gets one release per pitch of the active chord, the first after
\* final tick - last chord-event tick.
C21_EndIsMeasureLineThenClose ==
    [][AtFinish =>
        /\ cur_tick' = cur_tick + MeasureLinePad
        /\ NoteEvents(melody') = NoteEvents(melody)
        /\ chords' = chords
               \o CloseChord(chord_active, cur_tick', chord_last_tick)
               \o <<EndOfTrack>>]_vars

\* the first token is a chord symbol that the loop handles at tick 0, and the
\* loop now stands at the next chord symbol
AtSecondChord ==
    /\ InLoop
    /\ is_recording
    /\ meta.from_measure <= 1
    /\ IsBodyTok(Tok(0))
    /\ ~REST_RE(Tok(0)).ok
    /\ IsChordTok(Tok(0))
    /\ i > 0
    /\ i = NextChord(0)

\* C22: the span the forward scan computes at a chord symbol is the distance
\* in absolute ticks the loop covers up to the next chord symbol.
C22_SpanIsDistanceToNextChord ==
    AtSecondChord => cur_tick = ChordSpan(0, 0).ticks

\* C22 with at least one token between the two chord symbols
C22_SpanIsDistanceWithTokensBetween ==
    (AtSecondChord /\ i > 1) => cur_tick = ChordSpan(0, 0).ticks

\* tok has the form #CHORD_PATTERN=<name>
IsPatternDirective(tok) ==
    /\ Len(tok) >= Len(CHORD_PATTERN_KEY) + 2
    /\ Upper(SubSeq(tok, 2, Len(CHORD_PATTERN_KEY) + 1)) = CHORD_PATTERN_KEY
    /\ tok[Len(CHORD_PATTERN_KEY) + 2] = "="

\* the loop stands at a directive that is not of that form
AtUnparseableDirective ==
    InLoop /\ StartsWith(Tok(i), "#") /\ ~IsPatternDirective(Tok(i))

\* C23: a directive that is not CHORD_PATTERN=<name> does not abort and
\* changes nothing but the position in the token list: the strategy, the
\* absolute tick, the pending delta, the measure beats and the three tracks
\* stay as they were.
C23_UnparseableDirectiveIsIgnored ==
    [][AtUnparseableDirective =>
        /\ i' = i + 1
        /\ UNCHANGED <<status, error, current_chord_pattern, cur_tick, delta_melody,
                       measure_beats, current_measure, is_recording,
                       measure_start_tick, chord_active, chord_last_tick,
                       melody, chords, click>>]_vars

\* C23 witness: #CHORD_PATTERN without '=' has been passed after the strategy
\* was set to guitar, and guitar is still the strategy
C23_Witness ==
    /\ status = "run"
    /\ i >= 2
    /\ Tok(i - 1) = <<"#">> \o CHORD_PATTERN_KEY
    /\ IsPatternDirective(Tok(i - 2))
    /\ current_chord_pattern.kind = "guitar"

\* C24: while build_midi runs, the delta-times of the melody track plus the
\* pending delta add up to the absolute tick; when it has finished, the
\* delta-times of the melody track add up to the final tick.
C24_MelodyClock ==
    /\ status = "run" => TrackLength(melody) + delta_melody = cur_tick
    /\ status = "done" => TrackLength(melody) = cur_tick

\* C24, the part about the loop
C24_MelodyClockInLoop ==
    status = "run" => TrackLength(melody) + delta_melody = cur_tick

-----------------------------------------------------------------------------
(* Chord track positions, measure grid, metronome, inline strategies       *)

\* C25: when a non-empty chord symbol is processed, the first onset written
\* for it (after the releases of the chord that was sounding) stands in the
\* chord track at the absolute tick of the loop.
C25_FirstOnsetAtCurrentTick ==
    [][AtChord =>
        LET k == Len(chords) + Len(chord_active) + 1
        IN /\ Len(chords') >= k
           /\ chords'[k].type = "note_on"
           /\ TickAt(chords', k) = cur_tick]_vars

\* number of messages of the given type and pitch among the first k of track
CountOf(track, type, note, k) ==
    Cardinality({ l \in 1..k : track[l].type = type /\ track[l].note = note })

\* every release of the track is for a pitch that has more onsets than
\* releases before it
ReleasesSounding(track) ==
    \A k \in DOMAIN track :
        track[k].type = "note_off" =>
            CountOf(track, "note_on", track[k].note, k - 1)
                > CountOf(track, "note_off", track[k].note, k - 1)

C26_ChordTrackReleasesSounding == ReleasesSounding(chords)

\* the chord track of build_midi holds a note event
ChordTrackHasNote == status \in {"run", "done"} /\ NoteEvents(chords) # <<>>

\* the measure length in ticks is an integer: 480 * numerator * 4 / denominator
MeasureTicksIntegral == (TICKS_PER_BEAT * ts_num * 4) % ts_den = 0
MeasureTicks == (TICKS_PER_BEAT * ts_num * 4) \div ts_den

\* C27: after every measure line processed while recording, and after the
\* terminal padding, the absolute tick is a multiple of the measure length.
C27_MeasureGrid ==
    /\ [][(AtMeasureLine /\ is_recording /\ MeasureTicksIntegral)
            => cur_tick' % MeasureTicks = 0]_vars
    /\ []((status = "done" /\ MeasureTicksIntegral) => cur_tick % MeasureTicks = 0)

\* C27 at the end, for the token lists without a thirty-second duration
C27_MeasureGridWholeTicks ==
    []((\A k \in DOMAIN toks : ~Contains(toks[k], <<"t">>))
          => ((status = "done" /\ MeasureTicksIntegral)
                 => cur_tick % MeasureTicks = 0))

\* C28: for every accepted time signature the metronome loop ends, after
\* ceil(final tick / beat ticks) clicks.
C28_MetronomeTerminates ==
    /\ status # "hang"
    /\ (status = "done" /\ meta.metro_on /\ beat_ticks > 0) =>
           Len(NoteEvents(click)) = 2 * ((cur_tick + beat_ticks - 1) \div beat_ticks)

\* the loop stands at a directive #CHORD_PATTERN=<name>
AtPatternDirective ==
    InLoop /\ StartsWith(Tok(i), "#") /\ IsPatternDirective(Tok(i))

\* C29: the strategy an inline #CHORD_PATTERN=<name> selects is the one the
\* header would select for that name: it is built with the time signature of
\* the piece.
C29_DirectiveUsesPieceTimeSignature ==
    [][AtPatternDirective =>
        current_chord_pattern'
            = get_chord_pattern(Strip(AfterEquals(Tok(i))), <<ts_num, ts_den>>)]_vars

\* C30: the tick generate_events returns is the position of the chord track
\* after the call, last_tick plus the delta-times of what the call wrote; for
\* an empty chord nothing is written and last_tick is returned.
C30_ReturnedTickIsTrackPosition ==
    call.op = "generate_events" =>
        IF Len(chord_active) = 0
        THEN chords = <<>> /\ chord_last_tick = call.last_tick
        ELSE call.duration_ticks >= 1 =>
                 chord_last_tick = call.last_tick + TrackLength(chords)

\* C30 for the calls whose last_tick is not after start_tick
C30_ReturnedTickWhenNotLate ==
    (call.op = "generate_events" /\ call.last_tick <= call.start_tick
        /\ Len(chord_active) > 0 /\ call.duration_ticks >= 1)
    => chord_last_tick = call.last_tick + TrackLength(chords)

\* C30 for the empty chord
C30_EmptyChord ==
    (call.op = "generate_events" /\ Len(chord_active) = 0)
    => chords = <<>> /\ chord_last_tick = call.last_tick
====
